---- MODULE Spec2Model ----
(***************************************************************************)
(* A model of gena's task runner: gena/runners.py (FileRunner, do_jobs)    *)
(* and gena/jobs.py (run_jobs).                                            *)
(*                                                                         *)
(* Strings that the code inspects (paths, glob patterns, regular           *)
(* expressions) are sequences of lexemes; a lexeme is a one-character      *)
(* string or one regular-expression token.                                 *)
(***************************************************************************)
EXTENDS Integers, Sequences, FiniteSets, TLC

(***************************************************************************)
(* Bounds of the model.                                                    *)
(***************************************************************************)
MaxRules == 2
MaxPaths == 3
MaxJobs == 2
MaxSize == 2
MaxPathLen == 7
MaxRuns == 2

(***************************************************************************)
(* Program constants.  DEFAULT_FILE_FACTORY is the setting that resolves   *)
(* to a factory of gena.files ('gena.files.text_file').                    *)
(***************************************************************************)
DEFAULT_PRIORITY == 100
DEFAULT_FILE_FACTORY == "text_file"

(***************************************************************************)
(* Small helpers on sequences.                                             *)
(***************************************************************************)
Range(s) == {s[i] : i \in 1..Len(s)}

SeqsUpTo(S, n) == UNION {[1..m -> S] : m \in 0..n}

Injective(s) == \A i, j \in 1..Len(s) : s[i] = s[j] => i = j

(***************************************************************************)
(* The files that os.walk may find under SRC_DIR: "s/a.m", "s/b.m",        *)
(* "s/a.c" and "s/r".                                                      *)
(***************************************************************************)
PathChoices ==
    { <<"s", "/", "a", ".", "m">>,
      <<"s", "/", "b", ".", "m">>,
      <<"s", "/", "a", ".", "c">>,
      <<"s", "/", "r">> }

NoPath == <<>>

\* The bytes of these files: "A", "\u00e9" in utf-8, "B", and a byte that is
\* no utf-8 text.
SourceBytes ==
    [p \in PathChoices |->
        IF p = <<"s", "/", "a", ".", "m">> THEN <<65>>
        ELSE IF p = <<"s", "/", "b", ".", "m">> THEN <<195, 169>>
        ELSE IF p = <<"s", "/", "a", ".", "c">> THEN <<66>>
        ELSE <<195>>]

(***************************************************************************)
(* Rule descriptions a settings module may list in RULES.  A rule has      *)
(* either a glob `test` or a regular expression `retest`; `priority` and   *)
(* `file_factory` are optional keys (keys names the keys present).         *)
(***************************************************************************)
\* An entry of `processors`: a processor of the settings module that returns,
\* stops the chain or fails as it likes, and gena.processors.BundleProcessor.
P(processor) == [processor |-> processor, options |-> [name |-> ""]]

Bundle(name) == [processor |-> "BundleProcessor", options |-> [name |-> name]]

RuleMd ==
    [keys |-> {"test", "processors", "priority"},
     test |-> <<"*", ".", "m">>, retest |-> <<>>,
     processors |-> <<P("P1"), P("P2")>>, priority |-> 20, file_factory |-> ""]

RuleAll ==
    [keys |-> {"test", "processors", "priority"},
     test |-> <<"*">>, retest |-> <<>>,
     processors |-> <<P("P3")>>, priority |-> 10, file_factory |-> ""]

RuleA ==
    [keys |-> {"retest", "processors"},
     test |-> <<>>, retest |-> <<"/", "a", "\\.">>,
     processors |-> <<P("P2")>>, priority |-> 0, file_factory |-> ""]

RuleC ==
    [keys |-> {"test", "processors", "priority", "file_factory"},
     test |-> <<"?", "/", "*", ".", "c">>, retest |-> <<>>,
     processors |-> <<P("P4"), P("P1")>>, priority |-> 20, file_factory |-> "binary_file"]

RuleChoices == {RuleMd, RuleAll, RuleA, RuleC}

\* Rules that bundle: the "*.m" files as text into the bundle n1, the "*.c"
\* files as bytes into n1 too, every file as bytes into n2.
RuleBundleM ==
    [keys |-> {"test", "processors", "priority"},
     test |-> <<"*", ".", "m">>, retest |-> <<>>,
     processors |-> <<Bundle("n1")>>, priority |-> 20, file_factory |-> ""]

RuleBundleC ==
    [keys |-> {"test", "processors", "priority", "file_factory"},
     test |-> <<"*", ".", "c">>, retest |-> <<>>,
     processors |-> <<P("P1"), Bundle("n1")>>, priority |-> 10,
     file_factory |-> "binary_file"]

RuleBundleAll ==
    [keys |-> {"test", "processors", "file_factory"},
     test |-> <<"*">>, retest |-> <<>>,
     processors |-> <<Bundle("n2"), P("P2")>>, priority |-> 0,
     file_factory |-> "binary_file"]

BundleRuleChoices == {RuleBundleM, RuleBundleC, RuleBundleAll}

\* Entries for gena.processors.GroupProcessor and SavingProcessor, and one
\* that names a module that cannot be imported.  P("GroupProcessor") is a
\* GroupProcessor entry with no `name` among its options.
Group(name) == [processor |-> "GroupProcessor", options |-> [name |-> name]]

Saving == [processor |-> "SavingProcessor", options |-> [name |-> ""]]

Unresolved == P("nomodule.P")

\* Rules of a site: the "*.m" files are saved, grouped under g1 and handed
\* to P1; the "*.c" files are bundled, grouped under g2 and saved; every
\* file goes to P2 and is grouped under g1.  Two rules cannot be
\* constructed: the second processor of one cannot be imported, the second
\* processor of the other is a GroupProcessor without a name.
RuleSiteM ==
    [keys |-> {"test", "processors", "priority"},
     test |-> <<"*", ".", "m">>, retest |-> <<>>,
     processors |-> <<Saving, Group("g1"), P("P1")>>, priority |-> 20,
     file_factory |-> ""]

RuleSiteC ==
    [keys |-> {"test", "processors", "priority", "file_factory"},
     test |-> <<"*", ".", "c">>, retest |-> <<>>,
     processors |-> <<Bundle("n1"), Group("g2"), Saving>>, priority |-> 10,
     file_factory |-> "binary_file"]

RuleSiteAll ==
    [keys |-> {"test", "processors"},
     test |-> <<"*">>, retest |-> <<>>,
     processors |-> <<P("P2"), Group("g1")>>, priority |-> 0, file_factory |-> ""]

RuleSiteUnresolved ==
    [keys |-> {"test", "processors"},
     test |-> <<"*", ".", "c">>, retest |-> <<>>,
     processors |-> <<Group("g2"), Unresolved>>, priority |-> 0, file_factory |-> ""]

RuleSiteUnnamed ==
    [keys |-> {"test", "processors"},
     test |-> <<"*", ".", "c">>, retest |-> <<>>,
     processors |-> <<Bundle("n1"), P("GroupProcessor")>>, priority |-> 0,
     file_factory |-> ""]

SiteRuleChoices ==
    {RuleSiteM, RuleSiteC, RuleSiteAll, RuleSiteUnresolved, RuleSiteUnnamed}

\* settings.DST_DIR of these settings: "d"
DST_DIR == <<"d">>

\* Rules with glob tests of which some match a part of a path of the walk
\* and not the whole of it: "a.*", "?.m", "s/*" and "*.c".
RuleGlobA ==
    [keys |-> {"test", "processors", "priority"},
     test |-> <<"a", ".", "*">>, retest |-> <<>>,
     processors |-> <<P("P1")>>, priority |-> 10, file_factory |-> ""]

RuleGlobM ==
    [keys |-> {"test", "processors", "priority"},
     test |-> <<"?", ".", "m">>, retest |-> <<>>,
     processors |-> <<P("P2")>>, priority |-> 20, file_factory |-> ""]

RuleGlobS ==
    [keys |-> {"test", "processors", "priority"},
     test |-> <<"s", "/", "*">>, retest |-> <<>>,
     processors |-> <<P("P3")>>, priority |-> 30, file_factory |-> ""]

RuleGlobC ==
    [keys |-> {"test", "processors"},
     test |-> <<"*", ".", "c">>, retest |-> <<>>,
     processors |-> <<P("P4")>>, priority |-> 0, file_factory |-> ""]

GlobRuleChoices == {RuleGlobA, RuleGlobM, RuleGlobS, RuleGlobC}

(***************************************************************************)
(* os.path.normcase on a POSIX build returns its argument.                 *)
(***************************************************************************)
normcase(s) == s

(***************************************************************************)
(* fnmatch.translate: `*` becomes `.*`, `?` becomes `.`, every other       *)
(* character is escaped with re.escape (which puts a backslash before a    *)
(* regex metacharacter and leaves letters, digits and `/` alone); the      *)
(* result is wrapped as (?s:...)\Z.  The glob patterns of the model have   *)
(* no `[`.                                                                 *)
(***************************************************************************)
ReSpecial == {".", "^", "$", "*", "+", "?", "(", ")", "[", "]", "{", "}", "|", "\\"}

escape(c) == IF c \in ReSpecial THEN "\\" \o c ELSE c

RECURSIVE translateRes(_)
translateRes(pat) ==
    IF pat = <<>> THEN <<>>
    ELSE LET c == Head(pat)
             res == IF c = "*" THEN ".*"
                    ELSE IF c = "?" THEN "."
                    ELSE escape(c)
         IN  <<res>> \o translateRes(Tail(pat))

translate(pat) == <<"(?s:">> \o translateRes(pat) \o <<")", "\\Z">>

(***************************************************************************)
(* re.compile(...).search: the pattern is a sequence of atoms; search      *)
(* succeeds when the pattern matches starting at some position of the      *)
(* string (not only at its start).                                         *)
(***************************************************************************)
AtomMatches(atom, c) ==
    \/ atom = "."
    \/ atom = c /\ c \notin ReSpecial
    \/ atom = "\\" \o c

RECURSIVE MatchHere(_, _, _, _)
MatchHere(re, i, s, j) ==
    IF i > Len(re) THEN TRUE
    ELSE LET atom == re[i] IN
         IF atom \in {"(?s:", ")"} THEN MatchHere(re, i + 1, s, j)
         ELSE IF atom = "^" THEN j = 1 /\ MatchHere(re, i + 1, s, j)
         ELSE IF atom \in {"\\Z", "$"} THEN j = Len(s) + 1 /\ MatchHere(re, i + 1, s, j)
         ELSE IF atom = ".*"
              THEN \E n \in 0..(Len(s) + 1 - j) : MatchHere(re, i + 1, s, j + n)
         ELSE j <= Len(s) /\ AtomMatches(atom, s[j]) /\ MatchHere(re, i + 1, s, j + 1)

search(re, s) == \E j \in 1..(Len(s) + 1) : MatchHere(re, 1, s, j)

(***************************************************************************)
(* heapq on a Python list.  Positions are 0-based as in heapq; the list    *)
(* is a sequence, so position p is element p + 1.  Queue entries are       *)
(* tuples (priority, counter, task) and compare as Python tuples do; the   *)
(* counters are distinct, so the comparison never reaches the task.        *)
(***************************************************************************)
\* An order that looks at the counter only.
EntryLessCounterOnly(a, b) == a[2] < b[2]

\* An order that breaks a tie of priorities by the larger counter.
EntryLessLastFirst(a, b) == a[1] < b[1] \/ (a[1] = b[1] /\ a[2] > b[2])

EntryLess(a, b) == a[1] < b[1] \/ (a[1] = b[1] /\ a[2] < b[2])

RECURSIVE siftdownLoop(_, _, _, _)
siftdownLoop(heap, startpos, pos, newitem) ==
    IF pos > startpos
    THEN LET parentpos == (pos - 1) \div 2
             parent == heap[parentpos + 1]
         IN  IF EntryLess(newitem, parent)
             THEN siftdownLoop([heap EXCEPT ![pos + 1] = parent], startpos, parentpos, newitem)
             ELSE [heap EXCEPT ![pos + 1] = newitem]
    ELSE [heap EXCEPT ![pos + 1] = newitem]

siftdown(heap, startpos, pos) == siftdownLoop(heap, startpos, pos, heap[pos + 1])

RECURSIVE siftupLoop(_, _, _, _, _)
siftupLoop(heap, startpos, pos, childpos, newitem) ==
    IF childpos < Len(heap)
    THEN LET rightpos == childpos + 1
             child == IF rightpos < Len(heap)
                         /\ ~EntryLess(heap[childpos + 1], heap[rightpos + 1])
                      THEN rightpos ELSE childpos
         IN  siftupLoop([heap EXCEPT ![pos + 1] = heap[child + 1]],
                        startpos, child, 2 * child + 1, newitem)
    ELSE siftdown([heap EXCEPT ![pos + 1] = newitem], startpos, pos)

siftup(heap, pos) == siftupLoop(heap, pos, pos, 2 * pos + 1, heap[pos + 1])

\* A push that enters the item twice.
heappush_twice(heap, item) ==
    siftdown(Append(siftdown(Append(heap, item), 0, Len(heap)), item), 0, Len(heap) + 1)

heappush(heap, item) == siftdown(Append(heap, item), 0, Len(heap))

\* heappop of a non-empty list: the popped item and the list left.
heappop(heap) ==
    LET lastelt == heap[Len(heap)]
        rest == SubSeq(heap, 1, Len(heap) - 1)
    IN  IF rest # <<>>
        THEN [item |-> rest[1], heap |-> siftup([rest EXCEPT ![1] = lastelt], 0)]
        ELSE [item |-> lastelt, heap |-> rest]

(***************************************************************************)
(* posixpath.  A path is the sequence of its characters; a position found  *)
(* by rfind is counted from 1, 0 when the character is not there.          *)
(***************************************************************************)
sep == "/"

startswith(s, c) == s # <<>> /\ s[1] = c

endswith(s, c) == s # <<>> /\ s[Len(s)] = c

rfind(s, c) ==
    LET I == {i \in 1..Len(s) : s[i] = c}
    IN  IF I = {} THEN 0 ELSE CHOOSE i \in I : \A j \in I : j <= i

RECURSIVE split(_, _)
split(s, c) ==
    LET I == {i \in 1..Len(s) : s[i] = c}
    IN  IF I = {} THEN <<s>>
        ELSE LET i == CHOOSE k \in I : \A j \in I : k <= j
             IN  <<SubSeq(s, 1, i - 1)>> \o split(SubSeq(s, i + 1, Len(s)), c)

RECURSIVE rstrip(_, _)
rstrip(s, c) == IF endswith(s, c) THEN rstrip(SubSeq(s, 1, Len(s) - 1), c) ELSE s

\* c.join(comps)
RECURSIVE join_str(_, _)
join_str(c, comps) ==
    IF comps = <<>> THEN <<>>
    ELSE IF Len(comps) = 1 THEN comps[1]
    ELSE comps[1] \o <<c>> \o join_str(c, Tail(comps))

\* One turn of the loop of posixpath.join.
join_step(path, b) ==
    IF startswith(b, sep) THEN b
    ELSE IF path = <<>> \/ endswith(path, sep) THEN path \o b
    ELSE path \o <<sep>> \o b

RECURSIVE join_loop(_, _, _)
join_loop(path, p, i) ==
    IF i > Len(p) THEN path ELSE join_loop(join_step(path, p[i]), p, i + 1)

\* os.path.join(a, *p), paths = <<a>> \o p
os_path_join(paths) == join_loop(paths[1], paths, 2)

\* The loop of posixpath.normpath over the components.
RECURSIVE normpath_loop(_, _, _, _)
normpath_loop(comps, i, new_comps, initial_slashes) ==
    IF i > Len(comps) THEN new_comps
    ELSE LET comp == comps[i] IN
         IF comp = <<>> \/ comp = <<".">>
         THEN normpath_loop(comps, i + 1, new_comps, initial_slashes)
         ELSE IF \/ comp # <<".", ".">>
                 \/ (initial_slashes = 0 /\ new_comps = <<>>)
                 \/ (new_comps # <<>> /\ new_comps[Len(new_comps)] = <<".", ".">>)
         THEN normpath_loop(comps, i + 1, Append(new_comps, comp), initial_slashes)
         ELSE IF new_comps # <<>>
         THEN normpath_loop(comps, i + 1, SubSeq(new_comps, 1, Len(new_comps) - 1),
                            initial_slashes)
         ELSE normpath_loop(comps, i + 1, new_comps, initial_slashes)

os_path_normpath(path) ==
    IF path = <<>> THEN <<".">>
    ELSE LET initial_slashes ==
                 IF ~startswith(path, sep) THEN 0
                 ELSE IF /\ Len(path) >= 2 /\ path[2] = sep
                         /\ ~(Len(path) >= 3 /\ path[3] = sep)
                 THEN 2 ELSE 1
             new_comps == normpath_loop(split(path, sep), 1, <<>>, initial_slashes)
             joined == [k \in 1..initial_slashes |-> sep] \o join_str(sep, new_comps)
         IN  IF joined = <<>> THEN <<".">> ELSE joined

os_path_dirname(p) ==
    LET head == SubSeq(p, 1, rfind(p, sep))
    IN  IF head # <<>> /\ head # [k \in 1..Len(head) |-> sep]
        THEN rstrip(head, sep) ELSE head

os_path_basename(p) == SubSeq(p, rfind(p, sep) + 1, Len(p))

\* os.path.splitext: <<root, ext>>; leading dots of the name start no extension.
os_path_splitext(p) ==
    LET sepIndex == rfind(p, sep)
        dotIndex == rfind(p, ".")
    IN  IF /\ dotIndex > sepIndex
           /\ \E k \in (sepIndex + 1)..(dotIndex - 1) : p[k] # "."
        THEN <<SubSeq(p, 1, dotIndex - 1), SubSeq(p, dotIndex, Len(p))>>
        ELSE <<p, <<>>>>

(***************************************************************************)
(* gena.files.FilePath: the object is its _path.  A setter answers with    *)
(* the new _path and the error it raised ("" when it returned).            *)
(***************************************************************************)
\* FilePath.join(*paths)
FilePath_join(paths) ==
    os_path_normpath(IF paths = <<>> THEN <<>> ELSE os_path_join(paths))

\* FilePath(path)
FilePath(path) == FilePath_join(<<path>>)

FilePath_name(p) == os_path_basename(p)

FilePath_directory(p) == os_path_dirname(p)

FilePath_basename(p) == os_path_splitext(FilePath_name(p))[1]

FilePath_extension(p) == os_path_splitext(FilePath_name(p))[2]

\* A test for the separator that never finds it.
sep_never_in(v) == FALSE

\* os.sep in v
sep_in(v) == sep \in Range(v)

basename_setter(p, basename) ==
    IF sep_in(basename)
    THEN [path |-> p, error |-> "ValueError"]
    ELSE [path |-> FilePath_join(<<FilePath_directory(p), basename \o FilePath_extension(p)>>),
          error |-> ""]

directory_setter(p, directory) ==
    [path |-> FilePath_join(<<directory, FilePath_name(p)>>), error |-> ""]

\* An extension setter that puts a dot before whatever it is given.
extension_setter_dotted(p, extension) ==
    IF sep_in(extension)
    THEN [path |-> p, error |-> "ValueError"]
    ELSE [path |-> FilePath_join(<<FilePath_directory(p),
                                   FilePath_basename(p) \o <<".">> \o extension>>),
          error |-> ""]

extension_setter(p, extension) ==
    IF sep_in(extension)
    THEN [path |-> p, error |-> "ValueError"]
    ELSE LET name == IF startswith(extension, ".")
                     THEN FilePath_basename(p) \o extension
                     ELSE FilePath_basename(p) \o <<".">> \o extension
         IN  [path |-> FilePath_join(<<FilePath_directory(p), name>>), error |-> ""]

name_setter(p, name) ==
    IF sep_in(name)
    THEN [path |-> p, error |-> "ValueError"]
    ELSE [path |-> FilePath_join(<<FilePath_directory(p), name>>), error |-> ""]

path_setter(p, path) == [path |-> FilePath_join(<<path>>), error |-> ""]

(***************************************************************************)
(* Contents of a file value: None, a str (the sequence of its code points) *)
(* or a bytes object (the sequence of its bytes).                          *)
(***************************************************************************)
None == [kind |-> "None", data |-> <<>>]

str(data) == [kind |-> "str", data |-> data]

bytes(data) == [kind |-> "bytes", data |-> data]

(***************************************************************************)
(* The utf-8 codec, errors='strict'.  A conversion answers with the data   *)
(* and the error it raised ("" when it returned).                          *)
(***************************************************************************)
encode_char(cp) ==
    IF cp < 128 THEN <<cp>>
    ELSE IF cp < 2048 THEN <<192 + (cp \div 64), 128 + (cp % 64)>>
    ELSE IF cp < 65536
    THEN <<224 + (cp \div 4096), 128 + ((cp \div 64) % 64), 128 + (cp % 64)>>
    ELSE <<240 + (cp \div 262144), 128 + ((cp \div 4096) % 64),
           128 + ((cp \div 64) % 64), 128 + (cp % 64)>>

is_surrogate(cp) == cp >= 55296 /\ cp <= 57343

RECURSIVE encode_all(_)
encode_all(s) == IF s = <<>> THEN <<>> ELSE encode_char(s[1]) \o encode_all(Tail(s))

\* An encoder that keeps the low byte of every code point.
encode_low_byte(s) == [data |-> [i \in 1..Len(s) |-> s[i] % 256], error |-> ""]

\* str.encode('utf-8')
encode(s) ==
    IF \E i \in 1..Len(s) : is_surrogate(s[i])
    THEN [data |-> <<>>, error |-> "UnicodeEncodeError"]
    ELSE [data |-> encode_all(s), error |-> ""]

RECURSIVE decode_from(_, _, _)
decode_from(b, i, acc) ==
    IF i > Len(b) THEN [data |-> acc, error |-> ""]
    ELSE LET b1 == b[i]
             cont(k) == i + k <= Len(b) /\ b[i + k] >= 128 /\ b[i + k] <= 191
             low(k) == b[i + k] - 128
         IN  IF b1 < 128 THEN decode_from(b, i + 1, Append(acc, b1))
             ELSE IF b1 >= 194 /\ b1 <= 223 /\ cont(1)
             THEN decode_from(b, i + 2, Append(acc, (b1 - 192) * 64 + low(1)))
             ELSE IF /\ b1 >= 224 /\ b1 <= 239 /\ cont(1) /\ cont(2)
                     /\ (b1 = 224 => b[i + 1] >= 160)
                     /\ (b1 = 237 => b[i + 1] <= 159)
             THEN decode_from(b, i + 3,
                              Append(acc, (b1 - 224) * 4096 + low(1) * 64 + low(2)))
             ELSE IF /\ b1 >= 240 /\ b1 <= 244 /\ cont(1) /\ cont(2) /\ cont(3)
                     /\ (b1 = 240 => b[i + 1] >= 144)
                     /\ (b1 = 244 => b[i + 1] <= 143)
             THEN decode_from(b, i + 4,
                              Append(acc, (b1 - 240) * 262144 + low(1) * 4096
                                          + low(2) * 64 + low(3)))
             ELSE [data |-> <<>>, error |-> "UnicodeDecodeError"]

\* A decoder that takes every byte for a code point.
decode_latin(b) == [data |-> b, error |-> ""]

\* bytes.decode('utf-8')
decode(b) == decode_from(b, 1, <<>>)

\* What reading in text mode does to the line ends (newline=None).
RECURSIVE universal_newlines(_)
universal_newlines(s) ==
    IF s = <<>> THEN <<>>
    ELSE IF s[1] = 13
    THEN <<10>> \o universal_newlines(IF Len(s) >= 2 /\ s[2] = 10
                                      THEN SubSeq(s, 3, Len(s)) ELSE Tail(s))
    ELSE <<s[1]>> \o universal_newlines(Tail(s))

(***************************************************************************)
(* gena.files.File.  A file value is the record of _path, _opath,          *)
(* _contents and _type; applied lists the processors of the runner that    *)
(* have returned it, and id stands for the identity of the object (the     *)
(* path it was made for: the model makes one object for a path).  A disk   *)
(* is a function from the paths of the files that exist to their bytes.    *)
(* An operation answers with the file value (and the disk) it leaves and   *)
(* the error it raised ("" when it returned).                              *)
(***************************************************************************)
TEXT == "t"

BINARY == "b"

FileType == {BINARY, TEXT}

exists(dsk, p) == p \in DOMAIN dsk

write(dsk, p, data) ==
    [q \in DOMAIN dsk \cup {p} |-> IF q = p THEN data ELSE dsk[q]]

\* A contents setter that stores whatever it is given.
contents_setter_unchecked(f, contents) ==
    [file |-> [f EXCEPT !.contents = contents], error |-> ""]

\* File.contents = contents
contents_setter(f, contents) ==
    IF f.type = TEXT
    THEN IF contents.kind # "str"
         THEN [file |-> f, error |-> "TypeError"]
         ELSE [file |-> [f EXCEPT !.contents = contents], error |-> ""]
    ELSE IF contents.kind # "bytes"
    THEN [file |-> f, error |-> "TypeError"]
    ELSE [file |-> [f EXCEPT !.contents = contents], error |-> ""]

\* File(path, type=type_, **kwargs); kwargs is the sequence of the other
\* keywords with their values, of which only contents is modelled.
File(path, type_, kwargs) ==
    LET f == [path |-> FilePath(path), opath |-> FilePath(path),
              contents |-> None, type |-> type_, applied |-> <<>>,
              id |-> FilePath(path)]
    IN  IF kwargs # <<>> /\ kwargs[1][1] = "contents"
        THEN contents_setter(f, kwargs[1][2])
        ELSE [file |-> f, error |-> ""]

\* A read that loads the file at the target path.
contents_getter_target(f, dsk) ==
    IF f.contents # None THEN [file |-> f, error |-> ""]
    ELSE IF f.type \notin FileType THEN [file |-> f, error |-> "AttributeError"]
    ELSE IF ~exists(dsk, f.path) THEN [file |-> f, error |-> "FileNotFoundError"]
    ELSE IF f.type = BINARY
    THEN [file |-> [f EXCEPT !.contents = bytes(dsk[f.path])], error |-> ""]
    ELSE LET read == decode(dsk[f.path])
         IN  IF read.error # "" THEN [file |-> f, error |-> read.error]
             ELSE [file |-> [f EXCEPT !.contents = str(universal_newlines(read.data))],
                   error |-> ""]

\* File.contents read: the first read of a file value with nothing buffered
\* loads the original file.
contents_getter(f, dsk) ==
    IF f.contents # None THEN [file |-> f, error |-> ""]
    ELSE IF f.type \notin FileType THEN [file |-> f, error |-> "AttributeError"]
    ELSE IF ~exists(dsk, f.opath) THEN [file |-> f, error |-> "FileNotFoundError"]
    ELSE IF f.type = BINARY
    THEN [file |-> [f EXCEPT !.contents = bytes(dsk[f.opath])], error |-> ""]
    ELSE LET read == decode(dsk[f.opath])
         IN  IF read.error # "" THEN [file |-> f, error |-> read.error]
             ELSE [file |-> [f EXCEPT !.contents = str(universal_newlines(read.data))],
                   error |-> ""]

\* A type setter that leaves the contents as they are.
type_setter_unconverted(f, type_) == [file |-> [f EXCEPT !.type = type_], error |-> ""]

\* File.type = type_
type_setter(f, type_) ==
    IF f.type = type_ THEN [file |-> f, error |-> ""]
    ELSE IF f.contents = None THEN [file |-> [f EXCEPT !.type = type_], error |-> ""]
    ELSE IF type_ = BINARY /\ f.contents.kind = "str"
    THEN LET conv == encode(f.contents.data)
         IN  IF conv.error # "" THEN [file |-> f, error |-> conv.error]
             ELSE [file |-> [f EXCEPT !.contents = bytes(conv.data), !.type = type_],
                   error |-> ""]
    ELSE IF type_ = TEXT /\ f.contents.kind = "bytes"
    THEN LET conv == decode(f.contents.data)
         IN  IF conv.error # "" THEN [file |-> f, error |-> conv.error]
             ELSE [file |-> [f EXCEPT !.contents = str(conv.data), !.type = type_],
                   error |-> ""]
    ELSE [file |-> f, error |-> "TypeError"]

\* file.write(contents) on a file opened in the mode of the type: the bytes
\* that reach the file (a POSIX build writes the line ends as they are).
file_write(type_, contents) ==
    IF type_ = TEXT
    THEN IF contents.kind # "str" THEN [data |-> <<>>, error |-> "TypeError"]
         ELSE encode(contents.data)
    ELSE IF contents.kind # "bytes" THEN [data |-> <<>>, error |-> "TypeError"]
    ELSE [data |-> contents.data, error |-> ""]

\* A test of save that finds the target different from the original whenever
\* something is buffered.
same_unless_buffered(f, dsk) == exists(dsk, f.opath) /\ f.path = f.opath /\ f.contents = None

\* os.path.exists(self._opath) and self._path == self._opath (the paths are
\* normalised and relative to one working directory; no symbolic links).
original_is_target(f, dsk) == exists(dsk, f.opath) /\ f.path = f.opath

\* A save that keeps what was buffered and the original path.
save_done_nothing_cleared(f) == f

\* The end of a save that wrote or copied: self._contents = None (it is None
\* already after a copy), self._opath = self._path.copy()
save_done(f) == [f EXCEPT !.contents = None, !.opath = f.path]

\* File.save(append); value is what it returned.
save(f, dsk, append) ==
    IF original_is_target(f, dsk)
    THEN [file |-> f, disk |-> dsk, value |-> "False", error |-> ""]
    ELSE IF append \/ f.contents # None
    THEN IF f.type \notin FileType
         THEN [file |-> f, disk |-> dsk, value |-> "", error |-> "AttributeError"]
         ELSE LET opened == IF append /\ exists(dsk, f.path)
                            THEN dsk ELSE write(dsk, f.path, <<>>)
                  got == contents_getter(f, opened)
                  out == file_write(f.type, got.file.contents)
              IN  IF got.error # ""
                  THEN [file |-> got.file, disk |-> opened, value |-> "", error |-> got.error]
                  ELSE IF out.error # ""
                  THEN [file |-> got.file, disk |-> opened, value |-> "", error |-> out.error]
                  ELSE [file |-> save_done(got.file),
                        disk |-> write(opened, f.path, opened[f.path] \o out.data),
                        value |-> "True", error |-> ""]
    ELSE IF ~exists(dsk, f.opath)
    THEN [file |-> f, disk |-> dsk, value |-> "", error |-> "FileNotFoundError"]
    ELSE [file |-> save_done(f), disk |-> write(dsk, f.path, dsk[f.opath]),
          value |-> "True", error |-> ""]

(***************************************************************************)
(* Job lists of the settings: the list of length n holds the jobs          *)
(* J1 .. Jn.                                                               *)
(***************************************************************************)
JobNames == <<"J1", "J2", "J3", "J4">>

JobList(n) == [i \in 1..n |-> [job |-> JobNames[i]]]

JobLists == {JobList(n) : n \in 0..MaxJobs}

(***************************************************************************)
(* What calling a job or a processor may do: return, raise the error the   *)
(* caller knows about, or raise any other error.                           *)
(***************************************************************************)
JobOutcomes == {"ok", "JobError", "Error"}

ProcessorOutcomes == {"ok", "StopProcessing", "Error"}

(***************************************************************************)
(* The state.                                                              *)
(*   settings      the settings object (RULES may be missing)              *)
(*   walk          the paths os.walk yields, in its order                  *)
(*   pc            where the control is                                    *)
(*   rules         FileRunner._rules                                       *)
(*   job_i         position of the job loop                                *)
(*   path_i        position of the path loop of _get_tasks                 *)
(*   counter       itertools.count() of _get_tasks                         *)
(*   queue         the heap of _get_tasks                                  *)
(*   file          the file value of the running chain                     *)
(*   processors    the processors of the running chain                     *)
(*   proc_i        position of the processor loop                          *)
(*   file_counter  the local of run                                        *)
(*   result        what the call returned or raised                        *)
(*   log           every call observed so far, in order                    *)
(*   disk          the files that exist and their bytes                    *)
(*   context       gena.context.context                                    *)
(*   call          the last call made on the file value by a client of     *)
(*                 gena.files, with the file value and the disk it found   *)
(***************************************************************************)
VARIABLES settings, walk, pc, rules, job_i, path_i, counter, queue,
          file, processors, proc_i, file_counter, result, log,
          disk, context, call

vars == <<settings, walk, pc, rules, job_i, path_i, counter, queue,
          file, processors, proc_i, file_counter, result, log,
          disk, context, call>>

NoFile == [path |-> NoPath, opath |-> NoPath, contents |-> None, type |-> "",
           applied |-> <<>>, id |-> NoPath]

NoResult == [kind |-> "none", value |-> 0, error |-> ""]

Returned(v) == [kind |-> "return", value |-> v, error |-> ""]

Raised(e) == [kind |-> "raise", value |-> 0, error |-> e]

\* The context of a process that has just started.
EmptyContext == [section \in {} |-> None]

NoCall == [op |-> "", arg |-> None, file |-> NoFile, disk |-> EmptyContext]

\* The files of the walk on the disk.
SourceDisk(w) == [p \in Range(w) |-> SourceBytes[p]]

Event(op, path, n, res) == [op |-> op, path |-> path, n |-> n, res |-> res]

RuleLists == {rs \in SeqsUpTo(RuleChoices, MaxRules) : Injective(rs)}

Walks == {w \in SeqsUpTo(PathChoices, MaxPaths) : Injective(w)}

SettingsChoices ==
    { [has_RULES |-> TRUE, RULES |-> rs, PROCESSING_RULES |-> <<>>,
       INITIAL_JOBS |-> ij, FINAL_JOBS |-> fj]
        : rs \in RuleLists, ij \in JobLists, fj \in JobLists }
    \cup
    { [has_RULES |-> h, RULES |-> <<>>, PROCESSING_RULES |-> rs,
       INITIAL_JOBS |-> ij, FINAL_JOBS |-> fj]
        : h \in BOOLEAN, rs \in {<<>>, <<RuleAll>>}, ij \in JobLists, fj \in JobLists }

InitState ==
    /\ rules = <<>>
    /\ job_i = 0
    /\ path_i = 0
    /\ counter = 0
    /\ queue = <<>>
    /\ file = NoFile
    /\ processors = <<>>
    /\ proc_i = 0
    /\ file_counter = 0
    /\ result = NoResult
    /\ log = <<>>
    /\ context = EmptyContext
    /\ call = NoCall

Init ==
    /\ settings \in SettingsChoices
    /\ walk \in Walks
    /\ disk = SourceDisk(walk)
    /\ pc = "new"
    /\ InitState

(***************************************************************************)
(* FileRunner.__init__                                                     *)
(***************************************************************************)
\* One rule of the settings compiled; its processors are constructed here and
\* get the numbers first_id, first_id + 1, ... as their identities.
CompileRule(rule, first_id) ==
    [test |-> IF "retest" \in rule.keys
              THEN normcase(rule.retest)
              ELSE translate(normcase(rule.test)),
     processors |-> [k \in 1..Len(rule.processors) |->
                        [processor |-> rule.processors[k].processor,
                         name |-> rule.processors[k].options.name,
                         id |-> first_id + k - 1]],
     file_factory |-> IF "file_factory" \in rule.keys
                      THEN rule.file_factory
                      ELSE DEFAULT_FILE_FACTORY,
     priority |-> IF "priority" \in rule.keys THEN rule.priority ELSE DEFAULT_PRIORITY]

RECURSIVE CompileRules(_, _)
CompileRules(rs, first_id) ==
    IF rs = <<>> THEN <<>>
    ELSE <<CompileRule(Head(rs), first_id)>>
         \o CompileRules(Tail(rs), first_id + Len(Head(rs).processors))

\* settings.RULES or settings.get('PROCESSING_RULES', ())
ConfiguredRules ==
    IF settings.RULES # <<>> THEN settings.RULES ELSE settings.PROCESSING_RULES

\* BundleProcessor.section
section == "bundles"

\* GroupProcessor.section
GroupProcessor_section == "groups"

\* The context with the section sec put in when it is not there.  A section
\* is a function from names to what is kept under them; the dict of the
\* bundles and the defaultdict(list) of the groups both start with no name.
with_section(ctx, sec) ==
    IF sec \in DOMAIN ctx THEN ctx
    ELSE [x \in DOMAIN ctx \cup {sec} |-> IF x = sec THEN [n \in {} |-> None] ELSE ctx[x]]

\* A construction that never fails.
Processor_init_unchecked(desc, ctx) ==
    [context |-> IF desc.processor = "BundleProcessor" THEN with_section(ctx, section)
                 ELSE IF desc.processor = "GroupProcessor"
                 THEN with_section(ctx, GroupProcessor_section)
                 ELSE ctx,
     error |-> ""]

\* utils.import_attr(processor['processor'])(**processor.get('options', {})):
\* the import fails for a module that is not there, the call fails for a
\* BundleProcessor or GroupProcessor without its keyword `name`, and
\* otherwise the __init__ of these two puts their section in the context.
Processor_init(desc, ctx) ==
    IF desc.processor = "nomodule.P"
    THEN [context |-> ctx, error |-> "ModuleNotFoundError"]
    ELSE IF desc.processor \in {"BundleProcessor", "GroupProcessor"}
    THEN IF desc.options.name = ""
         THEN [context |-> ctx, error |-> "TypeError"]
         ELSE [context |-> with_section(ctx, IF desc.processor = "BundleProcessor"
                                           THEN section ELSE GroupProcessor_section),
               error |-> ""]
    ELSE [context |-> ctx, error |-> ""]

\* The loops of __init__ over the rules and the processors of each, from
\* processor k of rule i on: the first error ends them.
RECURSIVE construct_loop(_, _, _, _)
construct_loop(rs, i, k, ctx) ==
    IF i > Len(rs) THEN [context |-> ctx, error |-> ""]
    ELSE IF k > Len(rs[i].processors) THEN construct_loop(rs, i + 1, 1, ctx)
    ELSE LET made == Processor_init(rs[i].processors[k], ctx)
         IN  IF made.error # "" THEN made
             ELSE construct_loop(rs, i, k + 1, made.context)

\* A constructor without the check for an empty rule list.
ConstructUnchecked ==
    /\ pc = "new"
    /\ IF ~settings.has_RULES
       THEN /\ pc' = "raised"
            /\ result' = Raised("AttributeError")
            /\ UNCHANGED <<rules, context>>
       ELSE \E made \in {construct_loop(ConfiguredRules, 1, 1, context)} :
            /\ context' = made.context
            /\ IF made.error # ""
               THEN /\ pc' = "raised"
                    /\ result' = Raised(made.error)
                    /\ UNCHANGED rules
               ELSE /\ pc' = "constructed"
                    /\ rules' = CompileRules(ConfiguredRules, 1)
                    /\ UNCHANGED result
    /\ UNCHANGED <<settings, walk, job_i, path_i, counter, queue,
                   file, processors, proc_i, file_counter, log>>
    /\ UNCHANGED <<disk, call>>

Construct ==
    /\ pc = "new"
    /\ IF ~settings.has_RULES
       THEN /\ pc' = "raised"
            /\ result' = Raised("AttributeError")
            /\ UNCHANGED <<rules, context>>
       ELSE IF ConfiguredRules = <<>>
       THEN /\ pc' = "raised"
            /\ result' = Raised("ValueError")
            /\ UNCHANGED <<rules, context>>
       ELSE \E made \in {construct_loop(ConfiguredRules, 1, 1, context)} :
            /\ context' = made.context
            /\ IF made.error # ""
               THEN /\ pc' = "raised"
                    /\ result' = Raised(made.error)
                    /\ UNCHANGED rules
               ELSE /\ pc' = "constructed"
                    /\ rules' = CompileRules(ConfiguredRules, 1)
                    /\ UNCHANGED result
    /\ UNCHANGED <<settings, walk, job_i, path_i, counter, queue,
                   file, processors, proc_i, file_counter, log>>
    /\ UNCHANGED <<disk, call>>

(***************************************************************************)
(* FileRunner._get_rule: the position in _rules of the first rule whose    *)
(* test finds a match in the path, 0 for None.                             *)
(***************************************************************************)
RECURSIVE GetRuleFrom(_, _)
GetRuleFrom(path, i) ==
    IF i > Len(rules) THEN 0
    ELSE IF search(rules[i].test, normcase(path)) THEN i
    ELSE GetRuleFrom(path, i + 1)

\* A rule lookup that keeps looking and answers with the last matching rule.
RECURSIVE GetRuleLastFrom(_, _)
GetRuleLastFrom(path, i) ==
    IF i < 1 THEN 0
    ELSE IF search(rules[i].test, normcase(path)) THEN i
    ELSE GetRuleLastFrom(path, i - 1)

get_rule_last(path) == GetRuleLastFrom(path, Len(rules))

\* A rule lookup that falls back on the first rule when no rule matches.
get_rule_or_first(path) ==
    IF GetRuleFrom(path, 1) = 0 THEN 1 ELSE GetRuleFrom(path, 1)

get_rule(path) == GetRuleFrom(path, 1)

\* gena.files.text_file and gena.files.binary_file
file_factory(name, path) ==
    File(path, IF name = "binary_file" THEN BINARY ELSE TEXT, <<>>).file

(***************************************************************************)
(* FileRunner.run                                                          *)
(***************************************************************************)
RunStart ==
    /\ pc = "constructed"
    /\ IF rules = <<>>
       THEN /\ pc' = "returned"
            /\ result' = Returned(0)
            /\ UNCHANGED job_i
       ELSE /\ pc' = "initial_jobs"
            /\ job_i' = 1
            /\ UNCHANGED result
    /\ UNCHANGED <<settings, walk, rules, path_i, counter, queue,
                   file, processors, proc_i, file_counter, log>>
    /\ UNCHANGED <<disk, context, call>>

\* One turn of the loop of do_jobs: the job is called and whatever it raises
\* leaves do_jobs and run.
do_jobs(jobs, op) ==
    /\ job_i <= Len(jobs)
    /\ \E out \in JobOutcomes :
          /\ log' = Append(log, Event(op, NoPath, job_i, out))
          /\ IF out = "ok"
             THEN /\ job_i' = job_i + 1
                  /\ UNCHANGED <<pc, result>>
             ELSE /\ pc' = "raised"
                  /\ result' = Raised(out)
                  /\ UNCHANGED job_i
    /\ UNCHANGED <<settings, walk, rules, path_i, counter, queue,
                   file, processors, proc_i, file_counter>>
    /\ UNCHANGED <<disk, context, call>>

do_initial_jobs ==
    /\ pc = "initial_jobs"
    /\ do_jobs(settings.INITIAL_JOBS, "initial_job")

\* A run that may start on the tasks before the loop over the initial jobs is
\* through.
InitialJobsLeftEarly ==
    /\ pc = "initial_jobs"
    /\ pc' = "get_tasks"
    /\ file_counter' = 0
    /\ counter' = 0
    /\ queue' = <<>>
    /\ path_i' = 1
    /\ UNCHANGED <<settings, walk, rules, job_i, file, processors, proc_i, result, log>>
    /\ UNCHANGED <<disk, context, call>>

\* The initial jobs are done: file_counter = 0 and the first task is asked of
\* _get_tasks, whose body starts running.
InitialJobsDone ==
    /\ pc = "initial_jobs"
    /\ job_i > Len(settings.INITIAL_JOBS)
    /\ pc' = "get_tasks"
    /\ file_counter' = 0
    /\ counter' = 0
    /\ queue' = <<>>
    /\ path_i' = 1
    /\ UNCHANGED <<settings, walk, rules, job_i, file, processors, proc_i, result, log>>
    /\ UNCHANGED <<disk, context, call>>

\* _get_tasks, one turn of the loop over the paths.
GetTasksScan ==
    /\ pc = "get_tasks"
    /\ path_i <= Len(walk)
    /\ LET path == walk[path_i]
           r == get_rule(path)
       IN  IF r # 0
           THEN LET f == file_factory(rules[r].file_factory, path)
                    task == [file |-> f, processors |-> rules[r].processors]
                    entry == <<rules[r].priority, counter, task>>
                IN  /\ queue' = heappush(queue, entry)
                    /\ counter' = counter + 1
                    /\ log' = log \o <<Event("path", path, 0, ""),
                                       Event("file", path, rules[r].priority, rules[r].file_factory)>>
           ELSE /\ log' = log \o <<Event("path", path, 0, ""),
                                   Event("skip", path, 0, "")>>
                /\ UNCHANGED <<queue, counter>>
    /\ path_i' = path_i + 1
    /\ UNCHANGED <<settings, walk, pc, rules, job_i, file, processors, proc_i,
                   file_counter, result>>
    /\ UNCHANGED <<disk, context, call>>

\* A _get_tasks that hands out what is in the queue while paths are left to
\* scan.
GetTasksNextEarly ==
    /\ pc = "get_tasks"
    /\ IF queue # <<>>
       THEN LET popped == heappop(queue)
                task == popped.item[3]
            IN  /\ queue' = popped.heap
                /\ file' = task.file
                /\ processors' = task.processors
                /\ proc_i' = 1
                /\ pc' = "chain"
                /\ log' = Append(log, Event("task", task.file.path, 0, ""))
                /\ UNCHANGED job_i
       ELSE /\ path_i > Len(walk)
            /\ pc' = "final_jobs"
            /\ job_i' = 1
            /\ UNCHANGED <<queue, file, processors, proc_i, log>>
    /\ UNCHANGED <<settings, walk, rules, path_i, counter, file_counter, result>>
    /\ UNCHANGED <<disk, context, call>>

\* _get_tasks after the scan: the next task is popped and handed to the loop
\* of run, or the generator ends and run goes on to the final jobs.
GetTasksNext ==
    /\ pc = "get_tasks"
    /\ path_i > Len(walk)
    /\ IF queue # <<>>
       THEN LET popped == heappop(queue)
                task == popped.item[3]
            IN  /\ queue' = popped.heap
                /\ file' = task.file
                /\ processors' = task.processors
                /\ proc_i' = 1
                /\ pc' = "chain"
                /\ log' = Append(log, Event("task", task.file.path, 0, ""))
                /\ UNCHANGED job_i
       ELSE /\ pc' = "final_jobs"
            /\ job_i' = 1
            /\ UNCHANGED <<queue, file, processors, proc_i, log>>
    /\ UNCHANGED <<settings, walk, rules, path_i, counter, file_counter, result>>
    /\ UNCHANGED <<disk, context, call>>

\* An except clause that catches nothing.
except_nothing(out) == FALSE

\* An except clause that catches every error.
except_Exception(out) == out # "ok"

\* The except clause of run: the errors it catches.
except_StopProcessing(out) == out = "StopProcessing"

\* A call whose result is thrown away: the chain keeps the file it had.
processor_result_dropped(f, processor) == f

\* processor(file) when it returns: the file value with the mark of the
\* processor on it.
processor_process(f, processor) == [f EXCEPT !.applied = Append(@, processor.id)]

\* A bundle that puts the new contents in front of what it holds.
add_front(old, new) == [kind |-> old.kind, data |-> new.data \o old.data]

\* old + new for two str or two bytes
add(old, new) == [kind |-> old.kind, data |-> old.data \o new.data]

\* BundleProcessor.process: context[section][name] += file.contents, and
\* context[section][name] = file.contents when that raises KeyError.  The lookup
\* comes before the read of the contents in the first statement and after it in
\* the second.
BundleProcessor_process(processor, f, ctx) ==
    LET got == contents_getter(f, disk)
        raise(e) == [out |-> e, file |-> got.file, context |-> ctx]
        put(v) == [out |-> "ok", file |-> got.file,
                   context |-> [ctx EXCEPT ![section] =
                       [n \in DOMAIN ctx[section] \cup {processor.name} |->
                           IF n = processor.name THEN v ELSE ctx[section][n]]]]
    IN  IF got.error # "" THEN raise(got.error)
        ELSE IF section \notin DOMAIN ctx THEN raise("KeyError")
        ELSE IF processor.name \notin DOMAIN ctx[section] THEN put(got.file.contents)
        ELSE IF ctx[section][processor.name].kind # got.file.contents.kind
        THEN raise("TypeError")
        ELSE put(add(ctx[section][processor.name], got.file.contents))

\* A group that puts the new file in front of those it holds.
list_insert(group, f) == <<f>> \o group

\* list.append(file)
list_append(group, f) == Append(group, f)

\* GroupProcessor.process: context[section][name].append(file); the section
\* is a defaultdict(list), so a name it does not have yet holds [].  The
\* list holds the object itself, which the processors after this one go on
\* changing: the entry is the identity of the object.
GroupProcessor_process(processor, f, ctx) ==
    IF GroupProcessor_section \notin DOMAIN ctx
    THEN [out |-> "KeyError", file |-> f, context |-> ctx]
    ELSE LET groups == ctx[GroupProcessor_section]
             group == IF processor.name \in DOMAIN groups
                      THEN groups[processor.name] ELSE <<>>
         IN  [out |-> "ok", file |-> f,
              context |-> [ctx EXCEPT ![GroupProcessor_section] =
                  [n \in DOMAIN groups \cup {processor.name} |->
                      IF n = processor.name THEN list_append(group, f.id)
                      ELSE groups[n]]]]

\* SavingProcessor.process with the class attributes append = False and
\* directory = None: file.path.directory = settings.DST_DIR, file.save().
SavingProcessor_process(processor, f, dsk) ==
    LET moved == [f EXCEPT !.path = directory_setter(f.path, DST_DIR).path]
        saved == save(moved, dsk, FALSE)
    IN  [out |-> IF saved.error # "" THEN saved.error ELSE "ok",
         file |-> saved.file, disk |-> saved.disk]

\* processor(file): what the call may do, each with the file value, the
\* context and the disk it leaves.
processor_call(processor, f, ctx) ==
    IF processor.processor = "BundleProcessor"
    THEN {[out |-> e.out, file |-> e.file, context |-> e.context, disk |-> disk]
             : e \in {BundleProcessor_process(processor, f, ctx)}}
    ELSE IF processor.processor = "GroupProcessor"
    THEN {[out |-> e.out, file |-> e.file, context |-> e.context, disk |-> disk]
             : e \in {GroupProcessor_process(processor, f, ctx)}}
    ELSE IF processor.processor = "SavingProcessor"
    THEN {[out |-> e.out, file |-> e.file, context |-> ctx, disk |-> e.disk]
             : e \in {SavingProcessor_process(processor, f, disk)}}
    ELSE {[out |-> out,
           file |-> IF out = "ok" THEN processor_process(f, processor) ELSE f,
           context |-> ctx, disk |-> disk] : out \in ProcessorOutcomes}

\* A run that goes on to the final jobs when a processor has failed, as a
\* finally clause would.
ProcessThenFinalJobs ==
    /\ pc = "chain"
    /\ proc_i <= Len(processors)
    /\ \E e \in processor_call(processors[proc_i], file, context) :
          /\ log' = Append(log, Event("process", file.path, processors[proc_i].id, e.out))
          /\ file' = e.file
          /\ context' = e.context
          /\ disk' = e.disk
          /\ IF e.out = "ok"
             THEN /\ proc_i' = proc_i + 1
                  /\ UNCHANGED <<pc, file_counter, result, job_i>>
             ELSE IF except_StopProcessing(e.out)
             THEN /\ file_counter' = file_counter + 1
                  /\ pc' = "get_tasks"
                  /\ UNCHANGED <<proc_i, result, job_i>>
             ELSE /\ pc' = "final_jobs"
                  /\ job_i' = 1
                  /\ UNCHANGED <<proc_i, file_counter, result>>
    /\ UNCHANGED <<settings, walk, rules, path_i, counter, queue, processors, call>>

\* file = processor(file) in the try statement of run.
Process ==
    /\ pc = "chain"
    /\ proc_i <= Len(processors)
    /\ \E e \in processor_call(processors[proc_i], file, context) :
          /\ log' = Append(log, Event("process", file.path, processors[proc_i].id, e.out))
          /\ file' = e.file
          /\ context' = e.context
          /\ disk' = e.disk
          /\ IF e.out = "ok"
             THEN /\ proc_i' = proc_i + 1
                  /\ UNCHANGED <<pc, file_counter, result>>
             ELSE IF except_StopProcessing(e.out)
             THEN /\ file_counter' = file_counter + 1
                  /\ pc' = "get_tasks"
                  /\ UNCHANGED <<proc_i, result>>
             ELSE /\ pc' = "raised"
                  /\ result' = Raised(e.out)
                  /\ UNCHANGED <<proc_i, file_counter>>
    /\ UNCHANGED <<settings, walk, rules, job_i, path_i, counter, queue, processors,
                   call>>

\* An end of the chain that never gets back to the generator.
ChainNeverDone ==
    /\ pc = "chain"
    /\ proc_i > Len(processors)
    /\ UNCHANGED vars

\* The chain is through: file_counter += 1.
ChainDone ==
    /\ pc = "chain"
    /\ proc_i > Len(processors)
    /\ file_counter' = file_counter + 1
    /\ pc' = "get_tasks"
    /\ UNCHANGED <<settings, walk, rules, job_i, path_i, counter, queue,
                   file, processors, proc_i, result, log>>
    /\ UNCHANGED <<disk, context, call>>

do_final_jobs ==
    /\ pc = "final_jobs"
    /\ do_jobs(settings.FINAL_JOBS, "final_job")

\* A return that does not wait for the loop over the final jobs to be through.
FinalJobsLeftEarly ==
    /\ pc = "final_jobs"
    /\ pc' = "returned"
    /\ result' = Returned(file_counter)
    /\ UNCHANGED <<settings, walk, rules, job_i, path_i, counter, queue,
                   file, processors, proc_i, file_counter, log>>
    /\ UNCHANGED <<disk, context, call>>

\* return file_counter
FinalJobsDone ==
    /\ pc = "final_jobs"
    /\ job_i > Len(settings.FINAL_JOBS)
    /\ pc' = "returned"
    /\ result' = Returned(file_counter)
    /\ UNCHANGED <<settings, walk, rules, job_i, path_i, counter, queue,
                   file, processors, proc_i, file_counter, log>>
    /\ UNCHANGED <<disk, context, call>>

Next ==
    \/ Construct
    \/ RunStart
    \/ do_initial_jobs
    \/ InitialJobsDone
    \/ GetTasksScan
    \/ GetTasksNext
    \/ Process
    \/ ChainDone
    \/ do_final_jobs
    \/ FinalJobsDone

Spec == Init /\ [][Next]_vars

\* The runner under the assumption that the interpreter goes on with the
\* statement it is at: a job or a processor that is called returns or
\* raises, and nothing else can hold up a step of __init__ or run, which
\* share their thread with nothing.  The settings list the rules for "*.m"
\* and "*" and the walk finds "s/a.m" and "s/r".
InitLive ==
    /\ settings \in
          { [has_RULES |-> TRUE, RULES |-> rs, PROCESSING_RULES |-> <<>>,
             INITIAL_JOBS |-> ij, FINAL_JOBS |-> fj]
              : rs \in {r \in SeqsUpTo({RuleMd, RuleAll}, MaxRules) : Injective(r)},
                ij \in JobLists, fj \in JobLists }
    /\ walk \in {w \in SeqsUpTo({<<"s", "/", "a", ".", "m">>, <<"s", "/", "r">>}, MaxPaths) :
                    Injective(w)}
    /\ disk = SourceDisk(walk)
    /\ pc = "new"
    /\ InitState

SpecLive == InitLive /\ [][Next]_vars /\ WF_vars(Next)

(***************************************************************************)
(* The runner with rules that bundle: the same constructor and the same    *)
(* run, the settings list rules with BundleProcessor.                      *)
(***************************************************************************)
BundleSettingsChoices ==
    { [has_RULES |-> TRUE, RULES |-> rs, PROCESSING_RULES |-> <<>>,
       INITIAL_JOBS |-> ij, FINAL_JOBS |-> fj]
        : rs \in {r \in SeqsUpTo(BundleRuleChoices, MaxRules) : r # <<>> /\ Injective(r)},
          ij \in JobLists, fj \in JobLists }

InitBundle ==
    /\ settings \in BundleSettingsChoices
    /\ walk \in Walks
    /\ disk = SourceDisk(walk)
    /\ pc = "new"
    /\ InitState

SpecBundle == InitBundle /\ [][Next]_vars

(***************************************************************************)
(* The runner of a site: the settings list rules with GroupProcessor,      *)
(* SavingProcessor and BundleProcessor, and rules whose processors cannot  *)
(* be constructed.                                                         *)
(***************************************************************************)
InitSite ==
    /\ settings \in
          { [has_RULES |-> TRUE, RULES |-> rs, PROCESSING_RULES |-> <<>>,
             INITIAL_JOBS |-> ij, FINAL_JOBS |-> fj]
              : rs \in {r \in SeqsUpTo(SiteRuleChoices, MaxRules) : r # <<>> /\ Injective(r)},
                ij \in JobLists, fj \in JobLists }
    /\ walk \in Walks
    /\ disk = SourceDisk(walk)
    /\ pc = "new"
    /\ InitState

SpecSite == InitSite /\ [][Next]_vars

(***************************************************************************)
(* The runner with rules that have glob tests only.                        *)
(***************************************************************************)
InitGlob ==
    /\ settings \in
          { [has_RULES |-> TRUE, RULES |-> rs, PROCESSING_RULES |-> <<>>,
             INITIAL_JOBS |-> ij, FINAL_JOBS |-> fj]
              : rs \in {r \in SeqsUpTo(GlobRuleChoices, MaxRules) : r # <<>> /\ Injective(r)},
                ij \in JobLists, fj \in JobLists }
    /\ walk \in Walks
    /\ disk = SourceDisk(walk)
    /\ pc = "new"
    /\ InitState

SpecGlob == InitGlob /\ [][Next]_vars

(***************************************************************************)
(* gena watch: the runner of the site is constructed and run once, then    *)
(* the handlers of the file system events clear the context and run the    *)
(* same runner again.  (An event that comes while a run is going on waits  *)
(* for the handler in the thread of the observer; the debouncing by        *)
(* RERUN_INTERVAL only drops events.)  At most MaxRuns runs are followed.  *)
(***************************************************************************)
\* TemplateFileSystemEventHandler.on_modified up to the first statement of
\* runner.run(): context.clear(), then the loop over the initial jobs begins.
\* (SourceFileSystemEventHandler.on_any_event does the same after it has
\* asked the runner whether the path is applicable.)
on_modified ==
    /\ pc = "returned"
    /\ Cardinality({i \in 1..Len(log) : log[i].op = "clear"}) < MaxRuns - 1
    /\ context' = EmptyContext
    /\ log' = Append(log, Event("clear", NoPath, 0, ""))
    /\ pc' = "initial_jobs"
    /\ job_i' = 1
    /\ UNCHANGED <<settings, walk, rules, path_i, counter, queue,
                   file, processors, proc_i, file_counter, result>>
    /\ UNCHANGED <<disk, call>>

NextWatch ==
    \/ Construct
    \/ RunStart
    \/ do_initial_jobs
    \/ InitialJobsDone
    \/ GetTasksScan
    \/ GetTasksNext
    \/ Process
    \/ ChainDone
    \/ do_final_jobs
    \/ FinalJobsDone
    \/ on_modified

SpecWatch == InitSite /\ [][NextWatch]_vars

(***************************************************************************)
(* gena.jobs: run_initial_jobs, run_final_jobs and run_jobs, called on     *)
(* their own.                                                              *)
(***************************************************************************)
InitJobs ==
    /\ settings \in SettingsChoices
    /\ walk = <<>>
    /\ disk = SourceDisk(walk)
    /\ pc = "jobs_new"
    /\ InitState

run_initial_jobs ==
    /\ pc = "jobs_new"
    /\ pc' = "run_initial_jobs"
    /\ job_i' = 1
    /\ UNCHANGED <<settings, walk, rules, path_i, counter, queue,
                   file, processors, proc_i, file_counter, result, log>>
    /\ UNCHANGED <<disk, context, call>>

run_final_jobs ==
    /\ pc = "jobs_new"
    /\ pc' = "run_final_jobs"
    /\ job_i' = 1
    /\ UNCHANGED <<settings, walk, rules, path_i, counter, queue,
                   file, processors, proc_i, file_counter, result, log>>
    /\ UNCHANGED <<disk, context, call>>

\* The list run_jobs is working on.
RunJobsList ==
    IF pc = "run_initial_jobs" THEN settings.INITIAL_JOBS ELSE settings.FINAL_JOBS

\* The except clause of run_jobs: the errors it catches.
except_JobError(out) == out = "JobError"

\* One turn of the loop of run_jobs.
run_jobs ==
    /\ pc \in {"run_initial_jobs", "run_final_jobs"}
    /\ job_i <= Len(RunJobsList)
    /\ \E out \in JobOutcomes :
          /\ log' = Append(log, Event(IF pc = "run_initial_jobs" THEN "initial_job"
                                      ELSE "final_job", NoPath, job_i, out))
          /\ IF out = "ok" \/ except_JobError(out)
             THEN /\ job_i' = job_i + 1
                  /\ UNCHANGED <<pc, result>>
             ELSE /\ pc' = "raised"
                  /\ result' = Raised(out)
                  /\ UNCHANGED job_i
    /\ UNCHANGED <<settings, walk, rules, path_i, counter, queue,
                   file, processors, proc_i, file_counter>>
    /\ UNCHANGED <<disk, context, call>>

RunJobsReturn ==
    /\ pc \in {"run_initial_jobs", "run_final_jobs"}
    /\ job_i > Len(RunJobsList)
    /\ pc' = "returned"
    /\ result' = Returned(0)
    /\ UNCHANGED <<settings, walk, rules, job_i, path_i, counter, queue,
                   file, processors, proc_i, file_counter, log>>
    /\ UNCHANGED <<disk, context, call>>

NextJobs ==
    \/ run_initial_jobs
    \/ run_final_jobs
    \/ run_jobs
    \/ RunJobsReturn

SpecJobs == InitJobs /\ [][NextJobs]_vars

(***************************************************************************)
(* A client of gena.files working on one file value (a processor, a job,   *)
(* a test): it reads and assigns the contents, assigns the type, redirects *)
(* the target path and saves, in any order.  The file value was made for   *)
(* "s/a.m"; the targets are "d/a.m" and "s/./a.m", which is the original   *)
(* again.  No file on the disk grows beyond MaxSize bytes.                 *)
(***************************************************************************)
FileOriginal == <<"s", "/", "a", ".", "m">>

TargetChoices == { <<"d", "/", "a", ".", "m">>, <<"s", "/", ".", "/", "a", ".", "m">> }

\* Values a client may assign to the contents: None, "\u00e9", a lone
\* surrogate, the byte of "A" and a byte that is no utf-8 text.
ContentsChoices ==
    { None, str(<<233>>), str(<<55296>>), bytes(<<65>>), bytes(<<195>>) }

\* Values a client may assign to the type: the two members of FileType and a
\* value that is no member.
TypeChoices == {TEXT, BINARY, "x"}

\* The disk the client finds: the original is missing or holds "\u00e9" or a
\* byte that is no utf-8 text; the target is missing or holds "B".
DiskChoices ==
    { [p \in o \cup t |-> IF p = FileOriginal THEN b ELSE <<66>>]
        : o \in {{}, {FileOriginal}}, t \in {{}, {FilePath(<<"d", "/", "a", ".", "m">>)}},
          b \in {<<195, 169>>, <<195>>} }

Call(op, arg) == [op |-> op, arg |-> arg, file |-> file, disk |-> disk]

InitFile ==
    /\ settings \in {s \in SettingsChoices : s.RULES = <<>> /\ s.PROCESSING_RULES = <<>>
                                               /\ s.INITIAL_JOBS = <<>> /\ s.FINAL_JOBS = <<>>
                                               /\ s.has_RULES}
    /\ walk = <<>>
    /\ disk \in DiskChoices
    /\ pc = "file"
    /\ rules = <<>>
    /\ job_i = 0
    /\ path_i = 0
    /\ counter = 0
    /\ queue = <<>>
    /\ \E type_ \in TypeChoices :
       \E kwargs \in {<<>>} \cup {<<<<"contents", c>>>> : c \in {str(<<233>>), bytes(<<65>>)}} :
          /\ File(FileOriginal, type_, kwargs).error = ""
          /\ file = File(FileOriginal, type_, kwargs).file
    /\ processors = <<>>
    /\ proc_i = 0
    /\ file_counter = 0
    /\ result = NoResult
    /\ log = <<>>
    /\ context = EmptyContext
    /\ call = NoCall

\* What a call on the file value leaves in result.
Outcome(error, value) == IF error # "" THEN Raised(error) ELSE Returned(value)

\* file.contents
FileGetContents ==
    /\ pc = "file"
    /\ \E r \in {contents_getter(file, disk)} :
          /\ file' = r.file
          /\ result' = Outcome(r.error, r.file.contents.kind)
    /\ call' = Call("get_contents", None)
    /\ UNCHANGED <<settings, walk, pc, rules, job_i, path_i, counter, queue,
                   processors, proc_i, file_counter, log, disk, context>>

\* file.contents = contents
FileSetContents ==
    /\ pc = "file"
    /\ \E contents \in ContentsChoices :
       \E r \in {contents_setter(file, contents)} :
          /\ file' = r.file
          /\ result' = Outcome(r.error, "None")
          /\ call' = Call("set_contents", contents)
    /\ UNCHANGED <<settings, walk, pc, rules, job_i, path_i, counter, queue,
                   processors, proc_i, file_counter, log, disk, context>>

\* file.type = type_
FileSetType ==
    /\ pc = "file"
    /\ \E type_ \in TypeChoices :
       \E r \in {type_setter(file, type_)} :
          /\ file' = r.file
          /\ result' = Outcome(r.error, "None")
          /\ call' = Call("set_type", type_)
    /\ UNCHANGED <<settings, walk, pc, rules, job_i, path_i, counter, queue,
                   processors, proc_i, file_counter, log, disk, context>>

\* An assignment to a property of the FilePath file.path.
SetPathProperty(op, v) ==
    /\ \E r \in {IF op = "basename" THEN basename_setter(file.path, v)
                 ELSE IF op = "directory" THEN directory_setter(file.path, v)
                 ELSE IF op = "extension" THEN extension_setter(file.path, v)
                 ELSE IF op = "name" THEN name_setter(file.path, v)
                 ELSE path_setter(file.path, v)} :
          /\ Len(r.path) <= MaxPathLen
          /\ file' = [file EXCEPT !.path = r.path]
          /\ result' = Outcome(r.error, "None")
          /\ call' = Call(op, v)
    /\ UNCHANGED <<settings, walk, pc, rules, job_i, path_i, counter, queue,
                   processors, proc_i, file_counter, log, disk, context>>

\* file.path.path = path
FileSetPath ==
    /\ pc = "file"
    /\ \E path \in TargetChoices \cup {FileOriginal} : SetPathProperty("path", path)

\* The values a client assigns to a component of the target path: the name
\* "a.m", the basename "a", the extension "m" and the directories "d/" and
\* "s".
RenameChoices(op) ==
    IF op = "name" THEN { <<"a", ".", "m">> }
    ELSE IF op = "basename" THEN { <<"a">> }
    ELSE IF op = "extension" THEN { <<"m">> }
    ELSE { <<"d", "/">>, <<"s">> }

\* file.path.name = v, file.path.basename = v, file.path.extension = v,
\* file.path.directory = v
FileRename ==
    /\ pc = "file"
    /\ \E op \in {"name", "basename", "extension", "directory"} :
       \E v \in RenameChoices(op) : SetPathProperty(op, v)

\* file.save(append)
FileSave ==
    /\ pc = "file"
    /\ \E append \in BOOLEAN :
       \E r \in {save(file, disk, append)} :
          /\ \A p \in DOMAIN r.disk : Len(r.disk[p]) <= MaxSize
          /\ file' = r.file
          /\ disk' = r.disk
          /\ result' = Outcome(r.error, r.value)
          /\ call' = Call("save", IF append THEN "append" ELSE "")
    /\ UNCHANGED <<settings, walk, pc, rules, job_i, path_i, counter, queue,
                   processors, proc_i, file_counter, log, context>>

NextFile ==
    \/ FileGetContents
    \/ FileSetContents
    \/ FileSetType
    \/ FileSetPath
    \/ FileRename
    \/ FileSave

SpecFile == InitFile /\ [][NextFile]_vars

(***************************************************************************)
(* A client of gena.files.FilePath: it assigns basename, directory,        *)
(* extension, name and path of the path of a file value, in any order.  No *)
(* path grows beyond MaxPathLen characters.                                *)
(***************************************************************************)
\* The paths the FilePath is made for: "s/a.m" and "r".
PathInputs == { <<"s", "/", "a", ".", "m">>, <<"r">> }

\* Values assigned to basename, extension and name: "b", "c.d", ".x", "x", "",
\* ".", and with a separator "d/b".
ComponentChoices ==
    { <<"b">>, <<"c", ".", "d">>, <<".", "x">>, <<"x">>, <<>>, <<".">>,
      <<"d", "/", "b">> }

\* Values assigned to directory: "", "d/" and "/".
DirectoryChoices == { <<>>, <<"d", "/">>, <<"/">> }

InitPath ==
    /\ settings \in {s \in SettingsChoices : s.RULES = <<>> /\ s.PROCESSING_RULES = <<>>
                                               /\ s.INITIAL_JOBS = <<>> /\ s.FINAL_JOBS = <<>>
                                               /\ s.has_RULES}
    /\ walk = <<>>
    /\ disk = SourceDisk(walk)
    /\ pc = "path"
    /\ rules = <<>>
    /\ job_i = 0
    /\ path_i = 0
    /\ counter = 0
    /\ queue = <<>>
    /\ file \in {File(path, TEXT, <<>>).file : path \in PathInputs}
    /\ processors = <<>>
    /\ proc_i = 0
    /\ file_counter = 0
    /\ result = NoResult
    /\ log = <<>>
    /\ context = EmptyContext
    /\ call = NoCall

\* file.path.basename = basename
PathSetBasename ==
    /\ pc = "path"
    /\ \E basename \in ComponentChoices : SetPathProperty("basename", basename)

\* file.path.directory = directory
PathSetDirectory ==
    /\ pc = "path"
    /\ \E directory \in DirectoryChoices : SetPathProperty("directory", directory)

\* file.path.extension = extension
PathSetExtension ==
    /\ pc = "path"
    /\ \E extension \in ComponentChoices : SetPathProperty("extension", extension)

\* file.path.name = name
PathSetName ==
    /\ pc = "path"
    /\ \E name \in ComponentChoices : SetPathProperty("name", name)

\* file.path.path = path
PathSetPath ==
    /\ pc = "path"
    /\ \E path \in PathInputs : SetPathProperty("path", path)

NextPath ==
    \/ PathSetBasename
    \/ PathSetDirectory
    \/ PathSetExtension
    \/ PathSetName
    \/ PathSetPath

SpecPath == InitPath /\ [][NextPath]_vars

(***************************************************************************)
(* Definitions the properties share.                                       *)
(***************************************************************************)
LogIdx == 1..Len(log)

\* For every compiled test of the model, the paths it finds a match in.
Found ==
    [re \in {CompileRule(rule, 1).test
                : rule \in RuleChoices \cup BundleRuleChoices \cup SiteRuleChoices
                         \cup GlobRuleChoices}
        |-> {path \in PathChoices : search(re, path)}]

\* The rules of _rules whose test finds a match in the path.
Matching(path) == {r \in 1..Len(rules) : path \in Found[rules[r].test]}

\* The earliest-listed of them.
Earliest(path) ==
    LET m == Matching(path) IN CHOOSE r \in m : \A q \in m : r <= q

\* The identities of the processors constructed for rule r.
ProcIds(r) == {rules[r].processors[k].id : k \in 1..Len(rules[r].processors)}

\* The rule a processor was constructed for.
RuleOfId(n) == CHOOSE r \in 1..Len(rules) : n \in ProcIds(r)

\* The position of a path in the order of discovery.
Discovery(path) == CHOOSE i \in 1..Len(walk) : walk[i] = path

(***************************************************************************)
(* C1  First match wins.  Every task built for a path uses the             *)
(* processors, the priority and the file factory of the earliest-listed    *)
(* rule that matches the path, and every processor invoked on a file was   *)
(* constructed for that rule, never for a later-listed matching rule.      *)
(***************************************************************************)
C1_FirstMatchWins ==
    LET first == [path \in Range(walk) |-> rules[Earliest(path)]] IN
    /\ \A i \in 1..Len(queue) :
          LET path == queue[i][3].file.path
              rule == first[path]
          IN  /\ queue[i][1] = rule.priority
              /\ queue[i][3].processors = rule.processors
              /\ queue[i][3].file = file_factory(rule.file_factory, path)
    /\ \A i \in LogIdx :
          /\ log[i].op = "file" =>
                /\ log[i].n = first[log[i].path].priority
                /\ log[i].res = first[log[i].path].file_factory
          /\ log[i].op = "process" =>
                \E k \in 1..Len(first[log[i].path].processors) :
                    first[log[i].path].processors[k].id = log[i].n
    /\ pc = "chain" =>
          /\ processors = first[file.path].processors
          /\ file.type = file_factory(first[file.path].file_factory, file.path).type

\* A processor has run on a file that a later-listed rule of lower priority
\* number matches too.
C1_Witness ==
    \E i \in LogIdx :
        /\ log[i].op = "process"
        /\ \E r \in Matching(log[i].path) :
              /\ r > Earliest(log[i].path)
              /\ rules[r].priority < rules[Earliest(log[i].path)].priority

\* The positions of the log with an event of the given kind.
Events(op) == {i \in LogIdx : log[i].op = op}

\* The priority a task was created with (the "file" event of its path).
TaskPriority(path) ==
    log[CHOOSE k \in Events("file") : log[k].path = path].n

\* The events of the chain run on a path, in order.
Chain(path) == SelectSeq(log, LAMBDA e : e.op = "process" /\ e.path = path)

(***************************************************************************)
(* C2  Priority ordering.  A processor of a task of higher priority        *)
(* number is never invoked before a processor of a task of lower priority  *)
(* number, and while a task is being processed no task of lower priority   *)
(* number is waiting, whatever the order of discovery.                     *)
(***************************************************************************)
C2_PriorityOrdering ==
    /\ \A i, j \in Events("process") :
          i < j => rules[RuleOfId(log[i].n)].priority <= rules[RuleOfId(log[j].n)].priority
    /\ \A i \in Events("process") : \A k \in 1..Len(queue) :
          rules[RuleOfId(log[i].n)].priority <= queue[k][1]

\* Processors ran on two files of different priorities, the one discovered
\* later first.
C2_Witness ==
    \E i, j \in Events("process") :
        /\ i < j
        /\ rules[RuleOfId(log[i].n)].priority < rules[RuleOfId(log[j].n)].priority
        /\ Discovery(log[i].path) > Discovery(log[j].path)

(***************************************************************************)
(* C3  Stable tie-break.  Tasks are emitted in the order of (priority,     *)
(* discovery index): among tasks of equal priority the one discovered      *)
(* first is emitted first, whichever rules they come from.  The sequence   *)
(* number of a waiting task is the number of tasks created before it, so   *)
(* the numbers are distinct and grow with the discovery order.             *)
(***************************************************************************)
C3_StableTieBreak ==
    /\ \A i, j \in Events("task") :
          i < j =>
            \/ TaskPriority(log[i].path) < TaskPriority(log[j].path)
            \/ /\ TaskPriority(log[i].path) = TaskPriority(log[j].path)
               /\ Discovery(log[i].path) < Discovery(log[j].path)
    /\ \A k \in 1..Len(queue) :
          /\ queue[k][2] < counter
          /\ queue[k][2] = Cardinality({i \in Events("file") :
                Discovery(log[i].path) < Discovery(queue[k][3].file.path)})
    /\ counter = Cardinality(Events("file"))

\* Two tasks of equal priority that come from different rules were emitted,
\* and a third task was created.
C3_Witness ==
    /\ counter >= 3
    /\ \E i, j \in Events("task") :
          /\ i < j
          /\ TaskPriority(log[i].path) = TaskPriority(log[j].path)
          /\ Earliest(log[i].path) # Earliest(log[j].path)

(***************************************************************************)
(* C4  Stop-signal isolation.  StopProcessing raised by a processor never  *)
(* leaves run: the file is counted and run goes on with the next task.     *)
(* When run returns, every task has had its whole chain run or was stopped *)
(* by its own StopProcessing, all final jobs have been called, and the     *)
(* count returned includes the stopped files.                              *)
(***************************************************************************)
C4_StopIsolation ==
    /\ (log # <<>> /\ log[Len(log)].op = "process" /\ log[Len(log)].res = "StopProcessing") =>
          /\ pc \in {"get_tasks", "final_jobs", "returned"}
          /\ result.kind # "raise"
          /\ file_counter = Cardinality(Events("task"))
    /\ (pc = "returned" /\ rules # <<>>) =>
          /\ result = Returned(Cardinality(Events("task")))
          /\ Cardinality(Events("final_job")) = Len(settings.FINAL_JOBS)
          /\ \A i \in Events("task") :
                LET chain == Chain(log[i].path)
                    procs == rules[Earliest(log[i].path)].processors
                IN  \/ /\ chain # <<>>
                       /\ chain[Len(chain)].res = "StopProcessing"
                    \/ /\ Len(chain) = Len(procs)
                       /\ \A k \in 1..Len(chain) :
                             chain[k].n = procs[k].id /\ chain[k].res = "ok"

\* run has returned after a chain was stopped, a later task ran its whole
\* chain of two processors and a final job was called.
C4_Witness ==
    /\ pc = "returned"
    /\ result.value >= 2
    /\ settings.FINAL_JOBS # <<>>
    /\ \E i \in Events("process"), j \in Events("task") :
          /\ i < j
          /\ log[i].res = "StopProcessing"
          /\ Len(Chain(log[j].path)) = 2
          /\ \A k \in 1..2 : Chain(log[j].path)[k].res = "ok"

(***************************************************************************)
(* C5  Fatal error propagation.  When a processor raises an error other    *)
(* than StopProcessing nothing is called after it, neither a processor of  *)
(* the same chain nor a later task nor a job, and run raises that error    *)
(* instead of returning a count.                                           *)
(***************************************************************************)
C5_FatalPropagation ==
    \A i \in Events("process") :
        log[i].res = "Error" =>
            /\ i = Len(log)
            /\ pc = "raised"
            /\ result = Raised("Error")

\* A processor raised an error while its chain had another processor to run
\* and another task was waiting.
C5_Witness ==
    /\ \E i \in Events("process") : log[i].res = "Error"
    /\ proc_i < Len(processors)
    /\ queue # <<>>

(***************************************************************************)
(* C6  Per-job error isolation in run_jobs.  The jobs of the list are      *)
(* called one after the other in list order; a JobError raised by a job is *)
(* caught, never leaves run_jobs, and the jobs after it are still called:  *)
(* when run_jobs returns, every job of the list has been called.           *)
(***************************************************************************)
C6_JobErrorIsolation ==
    /\ \A i \in LogIdx : log[i].n = i
    /\ \A i \in LogIdx : log[i].res = "JobError" => (i < Len(log) \/ pc # "raised")
    /\ result.kind = "raise" => result.error # "JobError"
    /\ pc \in {"run_initial_jobs", "run_final_jobs"} => job_i = Len(log) + 1
    /\ pc = "returned" =>
          \/ /\ log = <<>>
             /\ settings.INITIAL_JOBS = <<>> \/ settings.FINAL_JOBS = <<>>
          \/ /\ log # <<>>
             /\ \A i \in LogIdx : log[i].op = log[1].op
             /\ Len(log) = Len(IF log[1].op = "initial_job"
                               THEN settings.INITIAL_JOBS ELSE settings.FINAL_JOBS)

\* run_jobs has returned after a job that was not the last raised JobError.
C6_Witness ==
    /\ pc = "returned"
    /\ \E i \in LogIdx : i < Len(log) /\ log[i].res = "JobError"

(***************************************************************************)
(* C7  A job error is recoverable inside a run: a JobError raised by an    *)
(* initial or a final job called by FileRunner.run does not leave run.     *)
(***************************************************************************)
C7_JobErrorRecoverable ==
    /\ \A i \in Events("initial_job") \cup Events("final_job") :
          log[i].res = "JobError" => pc # "raised"
    /\ result.kind = "raise" => result.error # "JobError"

(***************************************************************************)
(* C8  Job barrier ordering.  The initial jobs are called first, in list   *)
(* order, and all of them before a path is scanned, a file value is        *)
(* constructed or a processor is called.  The final jobs are called last,  *)
(* in list order, and only when no task is waiting and the chain of every  *)
(* task created has ended (complete or stopped).                           *)
(***************************************************************************)
ChainEnded(path) ==
    LET chain == Chain(path) IN
    \/ chain # <<>> /\ chain[Len(chain)].res = "StopProcessing"
    \/ Len(chain) = Len(rules[Earliest(path)].processors)

C8_JobBarrier ==
    LET ni == Cardinality(Events("initial_job"))
        nf == Cardinality(Events("final_job"))
    IN  /\ \A k \in 1..ni : log[k].op = "initial_job" /\ log[k].n = k
        /\ (Len(log) > ni \/ path_i > 1 \/ queue # <<>> \/ file # NoFile) =>
              /\ ni = Len(settings.INITIAL_JOBS)
              /\ \A k \in 1..ni : log[k].res = "ok"
        /\ \A k \in 1..nf :
              /\ log[Len(log) - nf + k].op = "final_job"
              /\ log[Len(log) - nf + k].n = k
        /\ nf > 0 =>
              /\ queue = <<>>
              /\ path_i > Len(walk)
              /\ file_counter = Cardinality(Events("file"))
              /\ \A i \in Events("file") :
                    /\ \E j \in Events("task") : log[j].path = log[i].path
                    /\ ChainEnded(log[i].path)

\* run has returned after two initial jobs, two tasks and two final jobs.
C8_Witness ==
    /\ pc = "returned"
    /\ Len(settings.INITIAL_JOBS) >= 2
    /\ Len(settings.FINAL_JOBS) >= 2
    /\ result.value >= 2

(***************************************************************************)
(* C9  Zero-rule configuration is rejected.  With no rule configured the   *)
(* constructor raises, so no runner exists: no job is called, no path is   *)
(* scanned, no file is processed and nothing is returned.                  *)
(***************************************************************************)
C9_ZeroRulesRejected ==
    (settings.RULES = <<>> /\ settings.PROCESSING_RULES = <<>>) =>
        /\ pc \in {"new", "raised"}
        /\ pc = "raised" => result.error \in {"ValueError", "AttributeError"}
        /\ result.kind # "return"
        /\ log = <<>>
        /\ path_i = 0
        /\ rules = <<>>

\* The constructor has raised ValueError for an empty rule list, with jobs
\* configured and files to find.
C9_Witness ==
    /\ settings.has_RULES
    /\ settings.RULES = <<>>
    /\ settings.PROCESSING_RULES = <<>>
    /\ settings.INITIAL_JOBS # <<>>
    /\ walk # <<>>
    /\ pc = "raised"
    /\ result = Raised("ValueError")

(***************************************************************************)
(* C10  Unmatched files are skipped.  A discovered path that no rule       *)
(* matches gets no file value, no task and no processor call, raises no    *)
(* error and is not counted; every matched path scanned so far has its     *)
(* task, and the count returned is the number of matched paths.            *)
(***************************************************************************)
C10_UnmatchedSkipped ==
    /\ \A i \in LogIdx :
          (log[i].path # NoPath /\ Matching(log[i].path) = {}) =>
              /\ log[i].op \in {"path", "skip"}
              /\ (i = Len(log) /\ log[i].op = "skip") => pc # "raised"
    /\ \A k \in 1..Len(queue) : Matching(queue[k][3].file.path) # {}
    /\ file # NoFile => Matching(file.path) # {}
    /\ \A n \in 1..(path_i - 1) :
          Matching(walk[n]) # {} <=>
              \E i \in Events("file") : log[i].path = walk[n]
    /\ counter = Cardinality({n \in 1..(path_i - 1) : Matching(walk[n]) # {}})
    /\ (pc = "returned" /\ rules # <<>>) =>
          result = Returned(Cardinality({n \in 1..Len(walk) : Matching(walk[n]) # {}}))

\* run has returned a count of two with an unmatched path discovered between
\* matched ones.
C10_Witness ==
    /\ pc = "returned"
    /\ result.value = 2
    /\ \E n \in 2..(Len(walk) - 1) : Matching(walk[n]) = {}

\* The number of events of the given kind on a path.
Count(op, path) == Cardinality({i \in Events(op) : log[i].path = path})

(***************************************************************************)
(* C11  Exactly-once tasks and count.  No path ever gets a second file     *)
(* value or a second task, the processors of a task are called after its   *)
(* task was emitted and before the next one is, and when run returns every *)
(* matched path has had exactly one task and the count returned is the     *)
(* number of matched paths, stopped chains included.                       *)
(***************************************************************************)
C11_ExactlyOnce ==
    /\ \A n \in 1..Len(walk) :
          /\ Count("file", walk[n]) <= 1
          /\ Count("task", walk[n]) <= Count("file", walk[n])
    /\ \A j \in Events("process") :
          \E i \in Events("task") :
              /\ i < j
              /\ log[i].path = log[j].path
              /\ \A k \in Events("task") : k <= i \/ k > j
    /\ Len(queue) = Cardinality(Events("file")) - Cardinality(Events("task"))
    /\ (pc = "returned" /\ rules # <<>>) =>
          /\ \A n \in 1..Len(walk) :
                Matching(walk[n]) # {} =>
                    Count("file", walk[n]) = 1 /\ Count("task", walk[n]) = 1
          /\ result = Returned(Cardinality(Events("task")))
          /\ result.value = Cardinality({n \in 1..Len(walk) : Matching(walk[n]) # {}})

\* run has returned a count of at least two, one of the files counted had its
\* chain stopped by its first processor.
C11_Witness ==
    /\ pc = "returned"
    /\ result.value >= 2
    /\ \E i \in Events("process") :
          /\ log[i].res = "StopProcessing"
          /\ Len(Chain(log[i].path)) = 1
          /\ Len(rules[Earliest(log[i].path)].processors) = 2

\* No discovered path matches a rule.
NoMatch == \A n \in 1..Len(walk) : Matching(walk[n]) = {}

(***************************************************************************)
(* C12  Empty input.  When no path is discovered or no discovered path     *)
(* matches a rule, no file value and no task are created, no processor is  *)
(* called, the loop over the tasks goes from the initial jobs straight to  *)
(* the final jobs, and when run returns all initial jobs and all final     *)
(* jobs have been called and it returns 0.  Nothing but a job that raises  *)
(* ends such a run otherwise.                                              *)
(***************************************************************************)
C12_EmptyInput ==
    (rules # <<>> /\ NoMatch) =>
        /\ Events("file") = {} /\ Events("task") = {} /\ Events("process") = {}
        /\ queue = <<>> /\ file = NoFile /\ file_counter = 0
        /\ pc # "chain"
        /\ pc \in {"get_tasks", "final_jobs", "returned"} =>
              /\ Cardinality(Events("initial_job")) = Len(settings.INITIAL_JOBS)
              /\ \A i \in Events("initial_job") : log[i].res = "ok"
        /\ pc = "returned" =>
              /\ result = Returned(0)
              /\ Cardinality(Events("final_job")) = Len(settings.FINAL_JOBS)
        /\ pc = "raised" =>
              /\ log[Len(log)].op \in {"initial_job", "final_job"}
              /\ log[Len(log)].res # "ok"

\* run has returned 0 after two initial and two final jobs, with paths
\* discovered that no rule matches.
C12_Witness ==
    /\ pc = "returned"
    /\ rules # <<>>
    /\ walk # <<>>
    /\ NoMatch
    /\ result = Returned(0)
    /\ Cardinality(Events("initial_job")) >= 2
    /\ Cardinality(Events("final_job")) >= 2

\* The identities of the first n processors of a chain, in order.
IdsOf(procs, n) == [k \in 1..n |-> procs[k].id]

(***************************************************************************)
(* C20  Chain execution order.  The processors of a task are called in the *)
(* order the rule lists them: the k-th call on a file is a call of the     *)
(* k-th processor of its rule and every call before the last one returned. *)
(* The file value handed to a processor is the value the processor before  *)
(* it returned, the constructed value for the first one.  After            *)
(* StopProcessing no other processor of the chain is called, and the file  *)
(* value keeps what the processors before the stop did to it.              *)
(***************************************************************************)
C20_ChainOrder ==
    /\ \A n \in 1..Len(walk) :
          LET chain == Chain(walk[n]) IN
          chain # <<>> =>
              LET procs == rules[Earliest(walk[n])].processors IN
              /\ Len(chain) <= Len(procs)
              /\ \A k \in 1..Len(chain) :
                    /\ chain[k].n = procs[k].id
                    /\ k < Len(chain) => chain[k].res = "ok"
    /\ pc = "chain" =>
          /\ proc_i = Len(Chain(file.path)) + 1
          /\ file = [file_factory(rules[Earliest(file.path)].file_factory, file.path)
                        EXCEPT !.applied = IdsOf(processors, proc_i - 1)]
    /\ (log # <<>> /\ log[Len(log)].op = "process" /\ log[Len(log)].res = "StopProcessing") =>
          /\ log[Len(log)].path = file.path
          /\ file.applied = IdsOf(processors, Len(Chain(file.path)) - 1)

\* The second processor of a chain has raised StopProcessing: the file value
\* carries the mark of the first one.
C20_Witness ==
    /\ log # <<>>
    /\ log[Len(log)].op = "process"
    /\ log[Len(log)].res = "StopProcessing"
    /\ Len(file.applied) = 1
    /\ Len(processors) = 2

\* The processor instance with the given identity.
ProcessorOfId(n) ==
    LET ps == rules[RuleOfId(n)].processors
    IN  ps[CHOOSE k \in 1..Len(ps) : ps[k].id = n]

\* The calls of BundleProcessor instances named name that returned.
Bundled(name) ==
    {i \in Events("process") :
        /\ log[i].res = "ok"
        /\ ProcessorOfId(log[i].n).processor = "BundleProcessor"
        /\ ProcessorOfId(log[i].n).name = name}

\* What a read of the contents of the file value of a path gives: the bytes
\* of the source file for a binary file, the text they encode for a text file.
ContentsOf(path) ==
    IF rules[Earliest(path)].file_factory = "binary_file"
    THEN bytes(SourceBytes[path])
    ELSE str(universal_newlines(decode(SourceBytes[path]).data))

\* The contents of the files of the calls Bundled(name) from position i of the
\* log on, one after the other.
RECURSIVE BundleFrom(_, _)
BundleFrom(name, i) ==
    IF i > Len(log) THEN <<>>
    ELSE IF i \in Bundled(name) THEN ContentsOf(log[i].path).data \o BundleFrom(name, i + 1)
    ELSE BundleFrom(name, i + 1)

(***************************************************************************)
(* C19  Bundle accumulation order.  From an empty context on, the bundle   *)
(* of a name holds the contents of the files its BundleProcessor instances *)
(* have returned, one after the other in the order of the calls, and there *)
(* is no bundle of a name no file was bundled under.  The calls come in    *)
(* the order of the schedule: by priority, then by discovery.  The file    *)
(* value a BundleProcessor returns has the paths, the type and the marks   *)
(* it came with, and its contents are those of the source file.            *)
(***************************************************************************)
C19_BundleOrder ==
    rules # <<>> =>
        /\ section \in DOMAIN context
        /\ \A name \in {"n1", "n2"} :
              IF Bundled(name) = {}
              THEN name \notin DOMAIN context[section]
              ELSE /\ name \in DOMAIN context[section]
                   /\ context[section][name].data = BundleFrom(name, 1)
                   /\ \A i \in Bundled(name) :
                         context[section][name].kind = ContentsOf(log[i].path).kind
        /\ \A name \in {"n1", "n2"} : \A i, j \in Bundled(name) :
              i < j =>
                \/ TaskPriority(log[i].path) < TaskPriority(log[j].path)
                \/ /\ TaskPriority(log[i].path) = TaskPriority(log[j].path)
                   /\ Discovery(log[i].path) < Discovery(log[j].path)
        /\ (/\ log # <<>>
            /\ log[Len(log)].op = "process"
            /\ log[Len(log)].res = "ok"
            /\ ProcessorOfId(log[Len(log)].n).processor = "BundleProcessor") =>
                file = [file_factory(rules[Earliest(file.path)].file_factory, file.path)
                           EXCEPT !.contents = ContentsOf(file.path),
                                  !.applied = IdsOf(processors, proc_i - 2)]

\* Two text files were bundled under n1, the one that sorts last first because
\* it was discovered first.
C19_Witness ==
    /\ section \in DOMAIN context
    /\ "n1" \in DOMAIN context[section]
    /\ context[section]["n1"] = str(<<233, 65>>)

(***************************************************************************)
(* C13  Type mismatch on content assignment.  Assigning a str to the       *)
(* contents of a BINARY file value, or bytes to the contents of a TEXT     *)
(* file value, raises TypeError at the assignment; the file value keeps    *)
(* the contents and the type it had, and nothing is written.               *)
(***************************************************************************)
C13_TypeMismatchRejected ==
    (/\ call.op = "set_contents"
     /\ \/ call.file.type = BINARY /\ call.arg.kind = "str"
        \/ call.file.type = TEXT /\ call.arg.kind = "bytes") =>
        /\ result.kind = "raise"
        /\ result.error = "TypeError"
        /\ file = call.file
        /\ disk = call.disk

\* A str was assigned to a BINARY file value that had bytes buffered.
C13_Witness ==
    /\ call.op = "set_contents"
    /\ call.arg.kind = "str"
    /\ call.file.type = BINARY
    /\ call.file.contents.kind = "bytes"
    /\ result.error = "TypeError"

(***************************************************************************)
(* C14  Mode/contents invariant.  Whatever was assigned (accepted or       *)
(* rejected), read, converted and saved: buffered contents are a str when  *)
(* the type is TEXT and bytes when the type is BINARY.                     *)
(***************************************************************************)
C14_ModeContentsInvariant ==
    file.contents # None =>
        /\ file.type = TEXT => file.contents.kind = "str"
        /\ file.type = BINARY => file.contents.kind = "bytes"

\* The type of a file value with a str buffered was changed to BINARY.
C14_Witness ==
    /\ call.op = "set_type"
    /\ call.file.type = TEXT
    /\ call.file.contents.kind = "str"
    /\ file.type = BINARY
    /\ file.contents.kind = "bytes"

(***************************************************************************)
(* C15  Mode conversion round-trip.  Assigning the type the file value     *)
(* has changes nothing.  After the type of a file value with buffered      *)
(* contents was changed from TEXT to BINARY or from BINARY to TEXT,        *)
(* changing it back gives the contents and the type it had before; when    *)
(* the change raised, the file value is as it was, and so it is after the  *)
(* change back.                                                            *)
(***************************************************************************)
C15_ModeRoundTrip ==
    call.op = "set_type" =>
        /\ call.arg = call.file.type =>
              /\ result.kind = "return"
              /\ file = call.file
        /\ (/\ call.file.contents # None
            /\ call.file.type \in FileType
            /\ call.arg \in FileType
            /\ call.arg # call.file.type) =>
              /\ result.kind = "return" =>
                    /\ file.type = call.arg
                    /\ file.contents.kind # call.file.contents.kind
              /\ result.kind = "raise" => file = call.file
              /\ type_setter(file, call.file.type) = [file |-> call.file, error |-> ""]

\* The type was changed to TEXT and the two bytes buffered became the one
\* character they encode.
C15_Witness ==
    /\ call.op = "set_type"
    /\ call.arg = TEXT
    /\ call.file.type = BINARY
    /\ call.file.contents = bytes(<<195, 169>>)
    /\ file.contents = str(<<233>>)
    /\ file.type = TEXT

(***************************************************************************)
(* C16  The original file is never rewritten.  When the target path of a   *)
(* file value is its original path and the original exists, save returns   *)
(* False and writes nothing, whatever is buffered and whatever the append  *)
(* flag; the buffered contents and both paths stay as they are.            *)
(***************************************************************************)
C16_OriginalNeverRewritten ==
    (/\ call.op = "save"
     /\ call.file.path = call.file.opath
     /\ exists(call.disk, call.file.opath)) =>
        /\ result.kind = "return"
        /\ result.value = "False"
        /\ disk = call.disk
        /\ file = call.file

\* save(append=True) of a file value with contents buffered whose target is
\* the existing original.
C16_Witness ==
    /\ call.op = "save"
    /\ call.arg = "append"
    /\ call.file.contents # None
    /\ call.file.path = call.file.opath
    /\ exists(call.disk, call.file.opath)
    /\ result.kind = "return"
    /\ result.value = "False"

\* The bytes a write of the contents puts in a file.
Written(contents) ==
    IF contents.kind = "str" THEN encode(contents.data).data ELSE contents.data

\* What a read of the original of a file value gives.
ReadOf(f, dsk) ==
    IF f.type = BINARY THEN bytes(dsk[f.opath])
    ELSE str(universal_newlines(decode(dsk[f.opath]).data))

\* A save of the file value as it is now returns False and changes nothing.
SecondSaveFalse ==
    \A append \in BOOLEAN :
        save(file, disk, append) = [file |-> file, disk |-> disk, value |-> "False", error |-> ""]

C18_ComponentValidation ==
    (call.op \in {"basename", "name", "extension"} /\ sep \in Range(call.arg)) =>
        /\ result.kind = "raise"
        /\ result.error = "ValueError"
        /\ file = call.file

\* "d/b" was assigned to the extension of a path that has a directory.
C18_Witness ==
    /\ call.op = "extension"
    /\ call.arg = <<"d", "/", "b">>
    /\ FilePath_directory(call.file.path) # <<>>
    /\ result.error = "ValueError"

\* The assignments to the target path of a file value.
PathSetterOps == {"name", "basename", "extension", "directory", "path"}

(***************************************************************************)
(* C23  Lazy load reads the original path.  A read of the contents of a    *)
(* file value with nothing buffered loads the file at the original path,   *)
(* whatever the target path is by then (FileNotFoundError when there is no *)
(* such file, whatever is at the target).  Assigning the name, basename,   *)
(* extension, directory or path of the target leaves the original path as  *)
(* it was; the original path changes only in a save that returns True, and *)
(* every such save makes it the target path.                               *)
(***************************************************************************)
C23_LazyLoadFromOriginal ==
    /\ (/\ call.op = "get_contents"
        /\ call.file.contents = None
        /\ call.file.type \in FileType) =>
          /\ ~exists(call.disk, call.file.opath) =>
                /\ result.kind = "raise"
                /\ result.error = "FileNotFoundError"
          /\ result.kind = "return" =>
                file = [call.file EXCEPT !.contents = ReadOf(call.file, call.disk)]
          /\ result.kind = "raise" => file = call.file
    /\ call.op \in PathSetterOps => file.opath = call.file.opath
    /\ (call.op # "" /\ file.opath # call.file.opath) =>
          /\ call.op = "save"
          /\ result.kind = "return"
          /\ result.value = "True"
    /\ (call.op = "save" /\ result.kind = "return" /\ result.value = "True") =>
          file.opath = call.file.path

\* The directory of the target was assigned, the target exists and holds
\* other bytes than the original, and the read gave those of the original.
C23_Witness ==
    /\ call.op = "get_contents"
    /\ call.file.contents = None
    /\ call.file.path # call.file.opath
    /\ exists(call.disk, call.file.path)
    /\ exists(call.disk, call.file.opath)
    /\ call.disk[call.file.path] # call.disk[call.file.opath]
    /\ result.kind = "return"
    /\ file.contents = ReadOf(call.file, call.disk)

(***************************************************************************)
(* C24  Only text/binary conversion is allowed.  Assigning to the type of  *)
(* a file value a value that is neither TEXT nor BINARY raises TypeError   *)
(* and leaves the type and the contents as they were, whether or not       *)
(* contents are buffered.                                                  *)
(***************************************************************************)
C24_InvalidModeRejected ==
    (call.op = "set_type" /\ call.arg \notin FileType) =>
        /\ result.kind = "raise"
        /\ result.error = "TypeError"
        /\ file = call.file

\* s has a character that is no dot.
HasStem(s) == \E i \in 1..Len(s) : s[i] # "."

\* s has a dot after a character that is no dot.
DotAfterStem(s) == \E i, j \in 1..Len(s) : i < j /\ s[i] # "." /\ s[j] = "."

\* The extension e with its leading dot taken off or put on.
OtherSpelling(e) == IF startswith(e, ".") THEN Tail(e) ELSE <<".">> \o e

(***************************************************************************)
(* C26  Path component setters round-trip and preserve the frame, as the   *)
(* claim has it: after a separator-free b was assigned to basename,        *)
(* basename is b and directory and extension are as before; assigning      *)
(* directory leaves name as it was; assigning an extension leaves          *)
(* directory and basename as they were, and the extension with and without *)
(* its leading dot gives the same path.                                    *)
(***************************************************************************)
C26_SetterRoundTrip ==
    /\ (call.op = "basename" /\ ~sep_in(call.arg)) =>
          /\ FilePath_basename(file.path) = call.arg
          /\ FilePath_directory(file.path) = FilePath_directory(call.file.path)
          /\ FilePath_extension(file.path) = FilePath_extension(call.file.path)
    /\ call.op = "directory" =>
          FilePath_name(file.path) = FilePath_name(call.file.path)
    /\ (call.op = "extension" /\ ~sep_in(call.arg)) =>
          /\ FilePath_directory(file.path) = FilePath_directory(call.file.path)
          /\ FilePath_basename(file.path) = FilePath_basename(call.file.path)
          /\ extension_setter(call.file.path, OtherSpelling(call.arg)).path = file.path

(***************************************************************************)
(* C26, amended.  The basename and the extension are the two parts of the  *)
(* name at its last dot, so the statement holds for values that leave that *)
(* dot where it is.  After a separator-free b with a character other than  *)
(* a dot was assigned to basename, directory is as before, and basename is *)
(* b and extension as before when the path has an extension or b has no    *)
(* dot after its first other character.  Assigning directory leaves a name *)
(* as it was unless the name is "", "." or "..".  Assigning to a path      *)
(* whose basename has a character other than a dot a separator-free        *)
(* extension with no dot after its first character leaves directory and    *)
(* basename as they were.                                                  *)
(* An extension that does not start with a dot gives the same path with    *)
(* and without a dot put before it.                                        *)
(***************************************************************************)
C26_SetterRoundTripPlain ==
    /\ (call.op = "basename" /\ ~sep_in(call.arg) /\ HasStem(call.arg)) =>
          /\ FilePath_directory(file.path) = FilePath_directory(call.file.path)
          /\ (FilePath_extension(call.file.path) # <<>> \/ ~DotAfterStem(call.arg)) =>
                /\ FilePath_basename(file.path) = call.arg
                /\ FilePath_extension(file.path) = FilePath_extension(call.file.path)
    /\ (call.op = "directory"
        /\ FilePath_name(call.file.path) \notin {<<>>, <<".">>, <<".", ".">>}) =>
          FilePath_name(file.path) = FilePath_name(call.file.path)
    /\ (call.op = "extension" /\ ~sep_in(call.arg)) =>
          /\ (/\ HasStem(FilePath_basename(call.file.path))
              /\ \A i \in 2..Len(call.arg) : call.arg[i] # ".") =>
                /\ FilePath_directory(file.path) = FilePath_directory(call.file.path)
                /\ FilePath_basename(file.path) = FilePath_basename(call.file.path)
          /\ ~startswith(call.arg, ".") =>
                extension_setter(call.file.path, <<".">> \o call.arg).path = file.path

\* A path in the directory "d" that got the basename "c.d" was given the
\* extension "x", which gives the path the extension ".x" gives.
C26_Witness ==
    /\ call.op = "extension"
    /\ call.arg = <<"x">>
    /\ FilePath_directory(call.file.path) = <<"d">>
    /\ FilePath_basename(call.file.path) = <<"c", ".", "d">>
    /\ file.path = extension_setter(call.file.path, <<".", "x">>).path
    /\ FilePath_extension(file.path) = <<".", "x">>
    /\ FilePath_basename(file.path) = FilePath_basename(call.file.path)

\* The path of the task a call of a processor belongs to: that of the last
\* task emitted before the call (a saving processor changes the path of the
\* file value, not the task).
TaskOf(i) ==
    log[CHOOSE t \in Events("task") :
            t < i /\ \A u \in Events("task") : u <= t \/ u > i].path

\* The entries of `processors` of a list of rules, rule after rule (the
\* instances, for the rules of the runner).
RECURSIVE Entries(_)
Entries(rs) == IF rs = <<>> THEN <<>> ELSE Head(rs).processors \o Entries(Tail(rs))

\* An entry that cannot be resolved or constructed.
Unconstructible(desc) ==
    \/ desc.processor = "nomodule.P"
    \/ desc.processor \in {"BundleProcessor", "GroupProcessor"} /\ desc.options.name = ""

(***************************************************************************)
(* C21  Fail-fast rule compilation.  Once a job has run or a path has been *)
(* scanned, the runner holds one instance for every entry of `processors`  *)
(* of every configured rule, each constructed once (the instances are      *)
(* numbered 1, 2, ... in the order of the entries), also for the rules     *)
(* that match no file; every call on a file goes to an instance of the     *)
(* rule of its task.  When an entry cannot be resolved or constructed, the *)
(* construction of the runner raises, there are no rules, no job runs and  *)
(* no path is scanned.                                                     *)
(***************************************************************************)
C21_FailFastConstruction ==
    /\ (log # <<>> \/ pc \notin {"new", "raised"}) =>
          /\ Len(rules) = Len(ConfiguredRules)
          /\ \A r \in 1..Len(rules) :
                Len(rules[r].processors) = Len(ConfiguredRules[r].processors)
          /\ \A n \in 1..Len(Entries(rules)) :
                /\ Entries(rules)[n].id = n
                /\ Entries(rules)[n].processor = Entries(ConfiguredRules)[n].processor
          /\ \A i \in Events("process") :
                log[i].n \in ProcIds(Earliest(TaskOf(i)))
    /\ (\E n \in 1..Len(Entries(ConfiguredRules)) :
            Unconstructible(Entries(ConfiguredRules)[n])) =>
          /\ pc \in {"new", "raised"}
          /\ rules = <<>>
          /\ log = <<>>
          /\ pc = "raised" =>
                /\ result.kind = "raise"
                /\ result.error \in {"ModuleNotFoundError", "TypeError"}

\* The second rule matches no file of the walk and has its instances; the
\* first instance of the first rule has been called on two files.
C21_Witness ==
    /\ Len(rules) = 2
    /\ \A n \in 1..Len(walk) : 2 \notin Matching(walk[n])
    /\ rules[2].processors # <<>>
    /\ \E i, j \in Events("process") :
          /\ i < j
          /\ log[i].n = 1
          /\ log[j].n = 1
          /\ TaskOf(i) # TaskOf(j)

\* Event i of the log is a call of a GroupProcessor instance named name that
\* returned.
Grouped(i, name) ==
    /\ log[i].op = "process"
    /\ log[i].res = "ok"
    /\ ProcessorOfId(log[i].n).processor = "GroupProcessor"
    /\ ProcessorOfId(log[i].n).name = name

\* The files of these calls (the paths their tasks were made for) from
\* position i of the log on, in the order of the calls.
RECURSIVE GroupFrom(_, _)
GroupFrom(name, i) ==
    IF i > Len(log) THEN <<>>
    ELSE IF Grouped(i, name) THEN <<TaskOf(i)>> \o GroupFrom(name, i + 1)
    ELSE GroupFrom(name, i + 1)

\* The group of a name in the context (a name the defaultdict does not have
\* holds the empty list).
GroupOf(name) ==
    IF GroupProcessor_section \in DOMAIN context
       /\ name \in DOMAIN context[GroupProcessor_section]
    THEN context[GroupProcessor_section][name]
    ELSE <<>>

\* The calls made on the file of the task of a path.
CallsOf(path) == {i \in Events("process") : TaskOf(i) = path}

\* The chain of the task of a path is through: it was stopped, or every
\* processor of the rule was called.
TaskEnded(path) ==
    \/ \E i \in CallsOf(path) : log[i].res = "StopProcessing"
    \/ Cardinality(CallsOf(path)) = Len(rules[Earliest(path)].processors)

(***************************************************************************)
(* C22  Aggregates are complete when the final jobs run.  At every moment  *)
(* the group of a name holds one entry for every call of a GroupProcessor  *)
(* of that name, in the order of the calls.  When a final job is invoked   *)
(* every task has been emitted and its chain is through (so every file     *)
(* whose chain reaches a GroupProcessor is in its group), and no processor *)
(* is called after a final job.                                            *)
(***************************************************************************)
C22_GroupsComplete ==
    rules # <<>> =>
        /\ \A name \in {"g1", "g2"} :
              GroupOf(name) = GroupFrom(name, 1)
        /\ \A j \in Events("final_job") : \A i \in Events("process") : i < j
        /\ Events("final_job") # {} =>
              /\ queue = <<>>
              /\ \A n \in 1..Len(walk) :
                    Matching(walk[n]) # {} =>
                        /\ Count("task", walk[n]) = 1
                        /\ TaskEnded(walk[n])

\* A final job has been invoked and the group g1 holds two files of two
\* rules, the one that was discovered last first.
C22_Witness ==
    /\ Events("final_job") # {}
    /\ Len(GroupOf("g1")) = 2
    /\ Earliest(GroupOf("g1")[1]) # Earliest(GroupOf("g1")[2])
    /\ Discovery(GroupOf("g1")[1]) > Discovery(GroupOf("g1")[2])

\* The events of the scan of _get_tasks and those of the execution.
ScanEvents == Events("path") \cup Events("file") \cup Events("skip")

RunEvents == Events("task") \cup Events("process")

\* The files on the disk that were not there when the run began.
WrittenPaths == DOMAIN disk \ Range(walk)

(***************************************************************************)
(* C27  Scheduling completes before execution starts.  Every path of the   *)
(* walk is matched against the rules, and enqueued if a rule matches,      *)
(* before the first task is handed out and the first processor is called;  *)
(* from then on the tasks of the run are those already counted (handed out *)
(* or waiting in the queue), one for every matched path of the walk, and a *)
(* file a processor has written during the run has no task in this run.    *)
(***************************************************************************)
C27_ScheduleBeforeExecution ==
    /\ \A i \in RunEvents : \A j \in ScanEvents : j < i
    /\ (RunEvents # {} \/ pc = "chain") =>
          /\ path_i > Len(walk)
          /\ \A n \in 1..Len(walk) : Count("path", walk[n]) = 1
          /\ Len(queue) + Cardinality(Events("task"))
                = Cardinality({n \in 1..Len(walk) : Matching(walk[n]) # {}})
          /\ \A k \in 1..Len(queue) : queue[k][3].file.id \in Range(walk)
    /\ \A p \in WrittenPaths :
          /\ \A i \in Events("file") \cup Events("task") : log[i].path # p
          /\ \A k \in 1..Len(queue) : queue[k][3].file.path # p

\* A processor is being called on the second task of three; the first task
\* has left a file on the disk that "*" would match.
C27_Witness ==
    /\ pc = "chain"
    /\ Cardinality(Events("task")) = 2
    /\ Len(queue) = 1
    /\ WrittenPaths # {}
    /\ \E r \in 1..Len(rules) : rules[r].test = translate(<<"*">>)

\* A processor has raised an error other than StopProcessing.
Failed == \E i \in Events("process") : log[i].res \notin {"ok", "StopProcessing"}

\* The calls of SavingProcessor instances that returned.
Saved ==
    {i \in Events("process") :
        log[i].res = "ok" /\ ProcessorOfId(log[i].n).processor = "SavingProcessor"}

\* The bundle of a name in the context.
BundleOf(name) ==
    IF section \in DOMAIN context /\ name \in DOMAIN context[section]
    THEN context[section][name].data
    ELSE <<>>

(***************************************************************************)
(* C29  No final jobs and no rollback after a fatal error.  When a         *)
(* processor has raised an error other than StopProcessing, the run has    *)
(* raised it and no final job was or will be invoked; the files the        *)
(* SavingProcessor calls before the failure wrote are on the disk with the *)
(* bytes they were given, and the groups and bundles hold what the calls   *)
(* before the failure put in them.                                         *)
(***************************************************************************)
C29_NoFinalNoRollback ==
    Failed =>
        /\ pc = "raised"
        /\ result.kind = "raise"
        /\ log[Len(log)].op = "process"
        /\ result.error = log[Len(log)].res
        /\ Events("final_job") = {}
        /\ \A i \in Saved :
              LET target == directory_setter(TaskOf(i), DST_DIR).path
              IN  /\ exists(disk, target)
                  /\ disk[target] = SourceBytes[TaskOf(i)]
        /\ \A p \in Range(walk) : exists(disk, p) /\ disk[p] = SourceBytes[p]
        /\ \A name \in {"g1", "g2"} : GroupOf(name) = GroupFrom(name, 1)
        /\ BundleOf("n1") = BundleFrom("n1", 1)

\* P1 has failed on a file that was saved and grouped before; a task before
\* it was saved and grouped too, and the settings list a final job.
C29_Witness ==
    /\ Failed
    /\ log[Len(log)].res = "Error"
    /\ settings.FINAL_JOBS # <<>>
    /\ Cardinality(Saved) = 2
    /\ Len(GroupOf("g1")) = 2
    /\ Cardinality(WrittenPaths) = 2

\* The position in the log of the last clearing of the context, 0 when there
\* was none.
LastClear ==
    IF Events("clear") = {} THEN 0
    ELSE CHOOSE c \in Events("clear") : \A d \in Events("clear") : d <= c

(***************************************************************************)
(* C28  Re-run after a context reset.  In a run of the same runner that    *)
(* follows a clearing of the context, the calls of the GroupProcessor and  *)
(* BundleProcessor instances return as they do in the first run, and the   *)
(* groups and the bundles hold under their names what the calls of this    *)
(* run have put in them and nothing of the runs before.                    *)
(***************************************************************************)
C28_RerunAccumulates ==
    LastClear # 0 =>
        /\ \A i \in Events("process") :
              (/\ i > LastClear
               /\ ProcessorOfId(log[i].n).processor \in {"GroupProcessor", "BundleProcessor"})
                  => log[i].res = "ok"
        /\ \A name \in {"g1", "g2"} : GroupOf(name) = GroupFrom(name, LastClear + 1)
        /\ BundleOf("n1") = BundleFrom("n1", LastClear + 1)

\* The glob pat from position i on matches the string s from position j to
\* its end (`*` any run of characters, `?` one character).
RECURSIVE GlobMatchesFrom(_, _, _, _)
GlobMatchesFrom(pat, i, s, j) ==
    IF i > Len(pat) THEN j > Len(s)
    ELSE IF pat[i] = "*"
    THEN \E n \in 0..(Len(s) + 1 - j) : GlobMatchesFrom(pat, i + 1, s, j + n)
    ELSE /\ j <= Len(s)
         /\ pat[i] = "?" \/ pat[i] = s[j]
         /\ GlobMatchesFrom(pat, i + 1, s, j + 1)

\* For the glob tests of the model, the paths they match as a whole.
WholeMatches ==
    [pat \in {rule.test : rule \in GlobRuleChoices}
        |-> {path \in PathChoices : GlobMatchesFrom(normcase(pat), 1, normcase(path), 1)}]

\* The configured rules whose glob matches the whole of a path.
WholeMatching(path) ==
    {r \in 1..Len(ConfiguredRules) : path \in WholeMatches[ConfiguredRules[r].test]}

Ended == pc \in {"returned", "raised"}

\* The loop that drains the queue has handed out no task twice, and once it
\* is left the queue is empty and every task pushed was handed out.
DrainedOnce ==
    /\ \A n \in 1..Len(walk) : Count("task", walk[n]) <= Count("file", walk[n])
    /\ \A n \in 1..Len(walk) : Count("file", walk[n]) <= 1
    /\ pc \in {"final_jobs", "returned"} =>
          /\ rules # <<>> => queue = <<>>
          /\ \A n \in 1..Len(walk) : Count("task", walk[n]) = Count("file", walk[n])

\* A run that is over has returned the count after the last final job, or
\* has raised an error.
EndedRight ==
    /\ pc = "returned" =>
          /\ result.kind = "return"
          /\ result.value = Cardinality(Events("task"))
          /\ rules # <<>> => Cardinality(Events("final_job")) = Len(settings.FINAL_JOBS)
    /\ pc = "raised" => result.kind = "raise"

(***************************************************************************)
(* C30  Termination.  With a finite walk and jobs and processors that      *)
(* return or raise when they are called, every construction and run comes  *)
(* to an end: run returns the count of the files processed after the final *)
(* jobs, or an error is raised.  The loop that drains the queue hands out  *)
(* every task that was pushed exactly once and ends when the queue is      *)
(* empty.                                                                  *)
(***************************************************************************)
C30_Termination == <>Ended /\ [](DrainedOnce /\ EndedRight)

\* run has returned after two tasks, the last of them stopped, and a final
\* job.
C30_Witness ==
    /\ pc = "returned"
    /\ result.kind = "return"
    /\ result.value = 2
    /\ queue = <<>>
    /\ log[Len(log)].op = "final_job"
    /\ \E i \in Events("process") :
          log[i].res = "StopProcessing" /\ \A j \in Events("process") : j <= i

====
